---- MODULE Spec2Model ----
(***************************************************************************)
(* Streaming relay of node-red-plugin-paautin-ai.                          *)
(*                                                                         *)
(* One chat request is followed through one of the three subprocess        *)
(* relays of the repository:                                               *)
(*   "pipe"     companion-server.js   handleChat (stdout pipe)             *)
(*   "poll"     unnamed/part_000      handleChat (temp file + pollFile)    *)
(*   "embedded" paautin-ai-config.js  handleClaudeCodeMode                 *)
(*                                                                         *)
(* The upstream output is a sequence of bytes.  A byte is written here as  *)
(* a string; every string except NL, SP, C3 and A9 stands for a run of     *)
(* ASCII bytes of JSON text that is never cut (cuts happen between the     *)
(* elements of the sequence).  C3 A9 is the two-byte UTF-8 encoding of one *)
(* non-ASCII character.                                                    *)
(***************************************************************************)
EXTENDS Integers, Sequences, FiniteSets, TLC

VARIABLES
    variant,     \* which relay serves the request
    phase,       \* position of the request handler
    proc,        \* state of the subprocess
    procEvents,  \* ChildProcess events already emitted ("error", "close")
    procBuf,     \* bytes the subprocess still has to write for its current line
    nLines,      \* lines the subprocess has started to write
    open,        \* the subprocess left its last line without a newline
    out,         \* bytes the subprocess has written (pipe contents / output file)
    files,       \* temp files that exist ("prompt", "out")
    delivered,   \* bytes of out handed to the stdout 'data' handler
    buffer,      \* the line buffer (buffer / lineBuffer)
    bytesRead,   \* poll relay: read offset into the output file
    fileSize,    \* poll relay: size sampled by the running poll
    pollpc,      \* poll relay: position of pollFile
    closed,      \* poll relay: the closed flag
    connected,   \* the client is still connected
    killed,      \* proc.killed
    sigterm,     \* number of SIGTERM signals sent
    resLog,      \* every call made on the response, in order
    trace,       \* every line handed to the per-line callback, with what it wrote
    crashed,     \* the server process died of an unhandled error
    \* concurrent requests of the temp-file relay
    now,         \* Date.now()
    tmpdir,      \* os.tmpdir(): the inode each temp file name is linked to
    inodes,      \* the contents of the output files
    reqs,        \* the chat requests, each with its closure and its subprocess
    \* the embedded routes
    cfg,         \* the configuration node getConfigNode() finds
    reqBody,     \* req.body of the chat request
    strategies,  \* the mode handlers the route has called
    upstream,    \* the outbound HTTP(S) request and its response
    errBody,     \* the body collected from a non-200 upstream response
    configRes,   \* what GET /paautin-ai/config answered
    \* prompt assembly
    chatBody,    \* the parsed body of a companion /chat request
    fullPrompt,  \* the prompt composed for the CLI
    argv,        \* the flags the CLI was spawned with
    request,     \* the method and target of the request the companion serves
    cors,        \* setCORS has set the Access-Control headers of the response
    pending,     \* the number of pollFile timers set and not yet run
    stray        \* number of SIGTERM signals sent through the recorded process
                 \* id after the subprocess had ended

relayVars == <<variant, phase, proc, procEvents, procBuf, nLines, open, out,
               files, delivered, buffer, bytesRead, fileSize, pollpc, closed,
               connected, killed, sigterm, resLog, trace, crashed>>
pairVars == <<now, tmpdir, inodes, reqs>>
embeddedVars == <<cfg, reqBody, strategies, upstream, errBody, configRes>>
promptVars == <<chatBody, fullPrompt, argv>>
httpVars == <<request, cors>>
timerVars == <<pending>>
signalVars == <<stray>>
sideVars == <<httpVars, timerVars, signalVars>>

vars == <<relayVars, pairVars, embeddedVars, promptVars, sideVars>>

\* what the subprocess relay of one request leaves alone
beyond == <<pairVars, embeddedVars, promptVars, sideVars>>

----------------------------------------------------------------------------
(* Bounds *)

\* lines the subprocess writes in one request
MaxLines == 2
\* milliseconds Date.now() advances while two requests arrive
MaxClock == 1
\* lines each subprocess writes when two requests run together
MaxOut == 2

----------------------------------------------------------------------------
(* Bytes, characters, JavaScript values *)

NL == "\n"
SP == " "
C3 == "C3"          \* lead byte of a two-byte UTF-8 sequence
A9 == "A9"          \* its continuation byte
EACUTE == "e'"      \* the character C3 A9 encodes
FFFD == "U+FFFD"    \* the replacement character
Undefined == "undefined"

Last(s) == s[Len(s)]
Front(s) == SubSeq(s, 1, Len(s) - 1)

\* Buffer.prototype.toString(): UTF-8 decoding of one chunk on its own.  An
\* incomplete or stray byte of a multi-byte sequence becomes U+FFFD.
RECURSIVE toString(_)
toString(bytes) ==
    IF bytes = <<>> THEN <<>>
    ELSE IF Head(bytes) = C3
         THEN IF Len(bytes) >= 2 /\ bytes[2] = A9
              THEN <<EACUTE>> \o toString(SubSeq(bytes, 3, Len(bytes)))
              ELSE <<FFFD>> \o toString(Tail(bytes))
    ELSE IF Head(bytes) = A9
         THEN <<FFFD>> \o toString(Tail(bytes))
    ELSE <<Head(bytes)>> \o toString(Tail(bytes))

\* String.prototype.split("\n"): always at least one element.
RECURSIVE split(_)
split(s) ==
    IF \A i \in 1..Len(s) : s[i] # NL THEN <<s>>
    ELSE LET i == CHOOSE i \in 1..Len(s) : s[i] = NL /\ \A j \in 1..(i-1) : s[j] # NL
         IN  <<SubSeq(s, 1, i - 1)>> \o split(SubSeq(s, i + 1, Len(s)))

\* String.prototype.trim()
RECURSIVE trimLeft(_)
trimLeft(s) == IF s # <<>> /\ Head(s) \in {SP, NL} THEN trimLeft(Tail(s)) ELSE s
RECURSIVE trimRight(_)
trimRight(s) == IF s # <<>> /\ Last(s) \in {SP, NL} THEN trimRight(Front(s)) ELSE s
trim(s) == trimRight(trimLeft(s))

----------------------------------------------------------------------------
(* Calls on the response *)

\* JSON.stringify of a member value: a scalar is <<v>>, an object starts with
\* "{}", and <<>> says the member is undefined (JSON.stringify drops it).
jsonScalar(v) == IF v = Undefined THEN <<>> ELSE <<v>>
jsonMember(k, v) == IF v = Undefined THEN <<>> ELSE <<k, v>>

\* res.write("data: " + JSON.stringify({type, content}) + "\n\n")
sseWrite(type, content) == [op |-> "write", type |-> type, content |-> content]
\* res.write("data: [DONE]\n\n")
DoneFrame == [op |-> "write", type |-> "[DONE]", content |-> <<>>]
\* res.end()
EndCall == [op |-> "end", type |-> "", content |-> <<>>]
\* sseEnd(res) of paautin-ai-config.js
sseEnd == <<DoneFrame, EndCall>>

----------------------------------------------------------------------------
(* Upstream events: the values JSON.parse returns *)

Blk(type, text, name, input) ==
    [js |-> "object", type |-> type, text |-> text, name |-> name, input |-> input]
NullBlk == [js |-> "null", type |-> Undefined, text |-> Undefined,
            name |-> Undefined, input |-> Undefined]
TextBlk(t) == Blk("text", t, Undefined, Undefined)
ToolBlk(n, i) == Blk("tool_use", Undefined, n, i)

Evt(type, message, isArray, content, result, cost, total) ==
    [js |-> "object", type |-> type, message |-> message,
     contentIsArray |-> isArray, content |-> content, result |-> result,
     cost_usd |-> cost, total_cost_usd |-> total]
\* null, a number, a string: no member is defined
NonObject(js) ==
    [js |-> js, type |-> Undefined, message |-> Undefined,
     contentIsArray |-> FALSE, content |-> <<>>, result |-> Undefined,
     cost_usd |-> Undefined, total_cost_usd |-> Undefined]
\* JSON.parse threw a SyntaxError
SyntaxError == NonObject("throw")

Assistant(content) ==
    Evt("assistant", "object", TRUE, content, Undefined, Undefined, Undefined)
Result(result, cost, total) ==
    Evt("result", Undefined, FALSE, <<>>, result, cost, total)

\* The JSON texts the subprocess writes, each with the value it parses to.
Docs ==
    { [text |-> <<"{asst[text]", "}">>,
       value |-> Assistant(<<TextBlk("hello")>>)],
      [text |-> <<"{asst[tool,text,tool]", "}">>,
       value |-> Assistant(<<ToolBlk("Read", "in1"), TextBlk("hi"),
                             ToolBlk("Edit", "in2")>>)],
      [text |-> <<"{asst[text,think,tool]", "}">>,
       value |-> Assistant(<<TextBlk("a"), Blk("thinking", Undefined, Undefined, Undefined),
                             ToolBlk("Edit", "in2")>>)],
      [text |-> <<"{asst[text,null,text]", "}">>,
       value |-> Assistant(<<TextBlk("b"), NullBlk, TextBlk("c")>>)],
      [text |-> <<"{asst[text{},tool{}]", "}">>,
       value |-> Assistant(<<TextBlk(Undefined), ToolBlk(Undefined, Undefined)>>)],
      [text |-> <<"{asst", "}">>,
       value |-> Evt("assistant", Undefined, FALSE, <<>>, Undefined, Undefined, Undefined)],
      [text |-> <<"{asst[text:", EACUTE, "]}">>,
       value |-> Assistant(<<TextBlk(EACUTE)>>)],
      [text |-> <<"{asst[text:", FFFD, FFFD, "]}">>,
       value |-> Assistant(<<TextBlk("U+FFFD U+FFFD")>>)],
      [text |-> <<"{result:ok,total_cost_usd", "}">>,
       value |-> Result("ok", Undefined, "0.01")],
      [text |-> <<"{result:ok,cost_usd", "}">>,
       value |-> Result("ok", "0.02", Undefined)],
      [text |-> <<"{result:''", "}">>,
       value |-> Result("", Undefined, Undefined)],
      [text |-> <<"{result", "}">>,
       value |-> Result(Undefined, Undefined, Undefined)],
      [text |-> <<"{system", "}">>,
       value |-> Evt("system", Undefined, FALSE, <<>>, Undefined, Undefined, Undefined)],
      [text |-> <<"null">>, value |-> NonObject("null")],
      [text |-> <<"5">>, value |-> NonObject("number")] }

\* JSON.parse(line): leading and trailing white space is skipped.
JSONparse(line) ==
    IF \E d \in Docs : d.text = trim(line)
    THEN (CHOOSE d \in Docs : d.text = trim(line)).value
    ELSE SyntaxError

\* JavaScript truthiness of a member value
truthy(v) == v \notin {Undefined, ""}

----------------------------------------------------------------------------
(* The per-line callbacks.  Each returns what it wrote to the response and  *)
(* whether an exception reached its try/catch.                              *)

Ran(wrote, threw) == [wrote |-> wrote, threw |-> threw]

\* forEachBlock with the tool_use branch left out
RECURSIVE forEachBlock_textOnly(_)
forEachBlock_textOnly(content) ==
    IF content = <<>> THEN Ran(<<>>, FALSE)
    ELSE LET block == Head(content) IN
         IF block.js = "null" THEN Ran(<<>>, TRUE)
         ELSE LET w == IF block.type = "text"
                       THEN <<sseWrite("text", jsonScalar(block.text))>>
                       ELSE <<>>
                  rest == forEachBlock_textOnly(Tail(content))
              IN  Ran(w \o rest.wrote, rest.threw)

\* evt.message.content.forEach(function (block) {...}): reading block.type of
\* a null block throws a TypeError; what was written before it stays written.
RECURSIVE forEachBlock(_)
forEachBlock(content) ==
    IF content = <<>> THEN Ran(<<>>, FALSE)
    ELSE LET block == Head(content) IN
         IF block.js = "null" THEN Ran(<<>>, TRUE)
         ELSE LET w == IF block.type = "text"
                       THEN <<sseWrite("text", jsonScalar(block.text))>>
                       ELSE IF block.type = "tool_use"
                       THEN <<sseWrite("tool_use",
                                       <<"{}">> \o jsonMember("tool", block.name)
                                                \o jsonMember("input", block.input))>>
                       ELSE <<>>
                  rest == forEachBlock(Tail(content))
              IN  Ran(w \o rest.wrote, rest.threw)

\* companionEvent testing the presence of evt.result instead of its truthiness
companionEvent_present(evt) ==
    IF evt.js = "throw" \/ evt.js = "null" THEN Ran(<<>>, TRUE)
    ELSE IF evt.type = "assistant" /\ truthy(evt.message) /\ evt.contentIsArray
    THEN forEachBlock(evt.content)
    ELSE IF evt.type = "result"
    THEN Ran((IF evt.result # Undefined
              THEN <<sseWrite("result", jsonScalar(evt.result))>> ELSE <<>>)
             \o (IF evt.cost_usd # Undefined
                 THEN <<sseWrite("cost", jsonScalar(evt.cost_usd))>> ELSE <<>>),
             FALSE)
    ELSE Ran(<<>>, FALSE)

\* companion-server.js: the body of the try block of the stdout line callback
companionEvent(evt) ==
    IF evt.js = "throw" \/ evt.js = "null" THEN Ran(<<>>, TRUE)
    ELSE IF evt.type = "assistant" /\ truthy(evt.message) /\ evt.contentIsArray
    THEN forEachBlock(evt.content)
    ELSE IF evt.type = "result"
    THEN Ran((IF truthy(evt.result)
              THEN <<sseWrite("result", jsonScalar(evt.result))>> ELSE <<>>)
             \o (IF evt.cost_usd # Undefined
                 THEN <<sseWrite("cost", jsonScalar(evt.cost_usd))>> ELSE <<>>),
             FALSE)
    ELSE Ran(<<>>, FALSE)

\* companion-server.js: lines.forEach(function (line) {...})
companionLine(line) ==
    IF trim(line) = <<>> THEN Ran(<<>>, FALSE)
    ELSE companionEvent(JSONparse(line))

\* unnamed/part_000: the body of the try block of processLine
pollEvent(evt) ==
    IF evt.js = "throw" \/ evt.js = "null" THEN Ran(<<>>, TRUE)
    ELSE IF evt.type = "assistant" /\ truthy(evt.message) /\ evt.contentIsArray
    THEN forEachBlock(evt.content)
    ELSE IF evt.type = "result"
    THEN Ran((IF truthy(evt.result)
              THEN <<sseWrite("result", jsonScalar(evt.result))>> ELSE <<>>)
             \o (IF evt.total_cost_usd # Undefined
                 THEN <<sseWrite("cost", jsonScalar(evt.total_cost_usd))>> ELSE <<>>),
             FALSE)
    ELSE Ran(<<>>, FALSE)

\* unnamed/part_000: processLine(line)
processLine(line) ==
    IF trim(line) = <<>> THEN Ran(<<>>, FALSE)
    ELSE pollEvent(JSONparse(line))

\* paautin-ai-config.js: handleClaudeCodeEvent(evt, res)
handleClaudeCodeEvent(evt) ==
    IF evt.js = "null" THEN Ran(<<>>, TRUE)
    ELSE IF evt.type = "assistant" /\ truthy(evt.message) /\ evt.contentIsArray
    THEN forEachBlock(evt.content)
    ELSE IF evt.type = "result"
    THEN Ran(IF truthy(evt.result)
             THEN <<sseWrite("result", jsonScalar(evt.result))>> ELSE <<>>,
             FALSE)
    ELSE Ran(<<>>, FALSE)

\* paautin-ai-config.js: lines.forEach(function (line) {...}) of the stdout handler
claudeCodeLine(line) ==
    IF trim(line) = <<>> THEN Ran(<<>>, FALSE)
    ELSE LET evt == JSONparse(line) IN
         IF evt.js = "throw" THEN Ran(<<>>, TRUE) ELSE handleClaudeCodeEvent(evt)

lineCallback(v, line) ==
    IF v = "pipe" THEN companionLine(line)
    ELSE IF v = "poll" THEN processLine(line)
    ELSE claudeCodeLine(line)

\* forEachLine with the try/catch around the loop instead of inside the
\* callback: the first exception ends the loop
RECURSIVE forEachLine_abort(_, _)
forEachLine_abort(v, lines) ==
    IF lines = <<>> THEN <<>>
    ELSE LET ran == lineCallback(v, Head(lines)) IN
         <<[line |-> Head(lines), final |-> FALSE, wrote |-> ran.wrote]>>
         \o (IF ran.threw THEN <<>> ELSE forEachLine_abort(v, Tail(lines)))

\* lines.forEach(callback): every line is handed to the callback, whose own
\* try/catch keeps an exception from ending the loop.  The result is the
\* trace of the lines with what each wrote.
RECURSIVE forEachLine(_, _)
forEachLine(v, lines) ==
    IF lines = <<>> THEN <<>>
    ELSE <<[line |-> Head(lines), final |-> FALSE,
            wrote |-> lineCallback(v, Head(lines)).wrote]>>
         \o forEachLine(v, Tail(lines))

RECURSIVE wroteOf(_)
wroteOf(tr) == IF tr = <<>> THEN <<>> ELSE Head(tr).wrote \o wroteOf(Tail(tr))

\* buffer += chunk.toString(); lines = buffer.split("\n"); buffer = lines.pop()
lineBufferStep(buf, chunk) ==
    LET parts == split(buf \o toString(chunk))
    IN  [lines |-> Front(parts), buffer |-> Last(parts)]

----------------------------------------------------------------------------
(* The request and its subprocess *)

Variants == {"pipe", "poll", "embedded"}
Streamed == {"pipe", "embedded"}

\* The lines the subprocess may write (without their newline).
ProcLines ==
    { <<"{asst[tool,text,tool]", "}">>,
      <<"{asst[text:", C3, A9, "]}">>,
      <<"{result:ok,total_cost_usd", "}">>,
      <<"{result:ok,cost_usd", "}">>,
      <<"{result:''", "}">>,
      <<"null">>,
      <<"banner">>,
      <<SP>> }

----------------------------------------------------------------------------
(* Concurrent requests of the temp-file relay: names and contents of the    *)
(* temp files, and the closure of each request                              *)

Requests == {"a", "b"}

\* the prompt of a request
promptOf(r) == IF r = "a" THEN "prompt a" ELSE "prompt b"

\* a name that is not linked
Absent == "ENOENT"

\* one output line of a subprocess: the n-th line of the CLI run for request r
OutLine(r, n) == [from |-> r, n |-> n]
\* the bytes of a hole, read back as NUL: no JSON, processLine drops them
Hole == [from |-> "", n |-> 0]

NewReq ==
    [pc |-> "new", ts |-> 0, proc |-> "none", given |-> Undefined, fd |-> Absent,
     off |-> 0, left |-> 0, bytesRead |-> 0, closed |-> FALSE, seen |-> <<>>]

PairIdle ==
    /\ now = 0
    /\ tmpdir = [prompt |-> [t \in 0..MaxClock |-> Absent],
                 out |-> [t \in 0..MaxClock |-> Absent]]
    /\ inodes = [r \in Requests |-> <<>>]
    /\ reqs = [r \in Requests |-> NewReq]

----------------------------------------------------------------------------
(* Prompt assembly: the body of a companion /chat request                   *)

\* a history entry: its role, and its content as the type of the value and
\* the length of the string it is (or is stringified to)
Msg(role, type, len) == [role |-> role, type |-> type, len |-> len]

\* content.length above which a history entry is cut
Budget == 500

\* flowContext: nodes is the number of nodes, tabLabel may be empty
Flow(nodes, tabLabel) ==
    [js |-> "object", nodes |-> nodes, tabLabel |-> tabLabel, tabId |-> "tab1"]
NullFlow == [js |-> "null", nodes |-> 0, tabLabel |-> "", tabId |-> ""]

\* what JSON.parse(await readBody(req)) gives: js is "throw" when the text is
\* no JSON, "null" for the JSON text null, "object" otherwise; a member that
\* is missing has the value its "||" default gives it
ChatBody(js, prompt, history, flowContext) ==
    [js |-> js, prompt |-> prompt, history |-> history, flowContext |-> flowContext]
NoChatBody == ChatBody("none", "", <<>>, NullFlow)
InvalidJson == ChatBody("throw", "", <<>>, NullFlow)
NullJson == ChatBody("null", "", <<>>, NullFlow)

\* a piece of the composed prompt: literal text, or the first n characters
\* of the content of history entry number s
Lit(text) == [k |-> "lit", s |-> text, n |-> 0]
ContentOf(i, n) == [k |-> "content", s |-> "history", n |-> i * 1000 + n]

\* the fenced flow block; JSON.stringify(nodes, null, 2) of companion-server.js
\* and JSON.stringify(nodes) of part_000 differ for every non-empty node list
flowBlock(v, fc) ==
    IF fc.js = "object" /\ fc.nodes > 0
    THEN <<Lit("Context - active Node-RED flow (tab: "),
           Lit(IF fc.tabLabel # "" THEN fc.tabLabel ELSE fc.tabId),
           Lit(", nodeCount nodes): json fence"),
           Lit(IF v = "pipe" THEN "JSON.stringify(nodes, null, 2)"
               ELSE "JSON.stringify(nodes)"),
           Lit("end of fence")>>
    ELSE <<>>

\* history.forEach(function (msg) {...}) of part_000: one line per entry
RECURSIVE historyLines(_, _)
historyLines(history, i) ==
    IF i > Len(history) THEN <<>>
    ELSE LET msg == history[i] IN
         <<Lit(IF msg.role = "user" THEN "User: " ELSE "Assistant: ")>>
         \o (IF msg.len > Budget THEN <<ContentOf(i, Budget), Lit("...")>>
             ELSE <<ContentOf(i, msg.len)>>)
         \o <<Lit(NL)>>
         \o historyLines(history, i + 1)

\* reading content.length of an entry without content throws a TypeError
historyThrows(history) == \E i \in DOMAIN history : history[i].type = "undefined"

\* the prompt handed to the CLI: companion-server.js 121-138 (no history),
\* part_000 122-158
composePrompt(v, body) ==
    IF v = "pipe" THEN flowBlock(v, body.flowContext) \o <<Lit(body.prompt)>>
    ELSE flowBlock(v, body.flowContext)
         \o (IF Len(body.history) > 0
             THEN <<Lit("Conversation history:")>> \o historyLines(body.history, 1)
                  \o <<Lit("Current message:")>>
             ELSE <<>>)
         \o <<Lit(body.prompt)>>

NotComposed == [composed |-> FALSE, text |-> <<>>]
Composed(text) == [composed |-> TRUE, text |-> text]

\* the flags that follow the prompt on the command line of the CLI
spawnFlags(v) ==
    IF v = "pipe"
    THEN <<"--output-format", "stream-json", "--max-turns", "10",
           "--model", "sonnet", "--no-session-persistence">>
    ELSE IF v = "poll"
    THEN <<"--output-format", "stream-json", "--verbose", "--max-turns", "10",
           "--model", "sonnet", "--no-session-persistence">>
    ELSE <<"--output-format", "stream-json", "--max-turns", "10">>

PromptIdle ==
    /\ chatBody = NoChatBody
    /\ fullPrompt = NotComposed
    /\ argv = <<>>

----------------------------------------------------------------------------
(* The embedded routes: configuration node, request body, outbound request  *)

\* PaautinAIConfigNode with its credentials; exists is FALSE when
\* getConfigNode() finds none; an apiKey of "" is no key
ConfigNode(exists, mode, serverUrl, apiKey) ==
    [exists |-> exists, mode |-> mode, model |-> "claude-sonnet-4-20250514",
     serverUrl |-> serverUrl, projectPath |-> "/project",
     includeSkills |-> "true", apiKey |-> apiKey]

NoConfigNode == ConfigNode(FALSE, "simple", "", "")

\* req.body of POST /paautin-ai/chat: mode may be Undefined, messages may be
\* missing (given is FALSE) or a list of message contents
Body(mode, messages, flowContext) ==
    [mode |-> mode, messages |-> messages, flowContext |-> flowContext]
NoMessages == [given |-> FALSE, list |-> <<>>]
Messages(list) == [given |-> TRUE, list |-> list]
NoBody == Body(Undefined, NoMessages, NullFlow)

\* the outbound request of handleSimpleMode (apiReq) or handleServerMode
\* (proxyReq): its state, the credential and the messages it carries, the
\* status of the response, the bytes the remote end has sent and how many
\* of them the 'data' handler has seen
Request(kind, state, auth, posted) ==
    [kind |-> kind, state |-> state, auth |-> auth, posted |-> posted,
     status |-> "", out |-> <<>>, delivered |-> 0, nLines |-> 0,
     open |-> FALSE, destroyed |-> FALSE]
NoUpstream == Request("none", "none", "", <<>>)

\* res.json(...) not called yet
NoAnswer == [sent |-> FALSE, json |-> [mode |-> Undefined]]

EmbeddedIdle ==
    /\ cfg = NoConfigNode
    /\ reqBody = NoBody
    /\ strategies = <<>>
    /\ upstream = NoUpstream
    /\ errBody = <<>>
    /\ configRes = NoAnswer

\* req.url: the request target, a path and the query string after "?"
\* ("" when the target has none)
Target(path, query) == [path |-> path, query |-> query]
\* req.method and req.url
Req(method, url) == [method |-> method, url |-> url]
\* no request of the companion (the embedded routes are served by Node-RED)
NoRequest == Req("", Target("", ""))

\* the listener has run setCORS and handed the request to handleChat
HttpIdle ==
    /\ request = IF variant = "embedded" THEN NoRequest
                 ELSE Req("POST", Target("/chat", ""))
    /\ cors = (variant # "embedded")

\* the response and the subprocess before handleChat has done anything
ResponseIdle ==
    /\ proc = "none"
    /\ pending = 0
    /\ stray = 0
    /\ procEvents = {}
    /\ procBuf = <<>>
    /\ nLines = 0
    /\ open = FALSE
    /\ out = <<>>
    /\ files = {}
    /\ delivered = 0
    /\ buffer = <<>>
    /\ bytesRead = 0
    /\ fileSize = 0
    /\ pollpc = "none"
    /\ closed = FALSE
    /\ connected = TRUE
    /\ killed = FALSE
    /\ sigterm = 0
    /\ resLog = <<>>
    /\ trace = <<>>
    /\ crashed = FALSE

\* handleChat has been entered and reads the body
RelayIdle ==
    /\ phase = "body"
    /\ ResponseIdle

Init ==
    /\ variant \in Variants
    /\ RelayIdle
    /\ PairIdle
    /\ EmbeddedIdle
    /\ PromptIdle
    /\ HttpIdle

\* the request bodies the relayed request may carry
RelayBodies ==
    { InvalidJson, NullJson,
      ChatBody("object", "", <<>>, NullFlow),
      ChatBody("object", "hi", <<>>, NullFlow) }

\* the bodies the relayed request of the embedded route may carry
RelayRequests ==
    { Body("claude-code", NoMessages, NullFlow),
      Body("claude-code", Messages(<<"hi">>), NullFlow) }

Call(op, type, content) == [op |-> op, type |-> type, content |-> content]

\* the 'error' event of a failed spawn is emitted on the next tick, before
\* any timer or I/O callback runs
ErrorPending == proc = "failed" /\ "error" \notin procEvents

\* companion-server.js handleChat, from the end of readBody to its return
handleChat_pipe(body, spawned, fatal) ==
    /\ UNCHANGED <<pairVars, embeddedVars, sideVars>>
    /\ variant = "pipe" /\ phase = "body" /\ ~crashed
    /\ UNCHANGED <<variant, procEvents, procBuf, nLines, open, out, files,
                   delivered, buffer, bytesRead, fileSize, pollpc, closed,
                   connected, killed, sigterm, trace>>
    /\ chatBody' = body
    /\ IF body.js = "throw"
       THEN /\ resLog' = <<Call("writeHead", "400", <<>>),
                           Call("end", "json", <<"error", "Invalid JSON">>)>>
            /\ phase' = "rejected"
            /\ UNCHANGED <<proc, crashed, fullPrompt, argv>>
       ELSE IF body.js = "null"
       \* body.prompt of null throws outside the try block: the promise of
       \* handleChat is rejected with no handler, which ends the server
       \* process or not, depending on the runtime; nothing is answered
       THEN /\ phase' = "threw" /\ crashed' = fatal
            /\ UNCHANGED <<resLog, proc, fullPrompt, argv>>
       ELSE IF body.prompt = ""
       THEN /\ resLog' = <<Call("writeHead", "400", <<>>),
                           Call("end", "json", <<"error", "Missing prompt">>)>>
            /\ phase' = "rejected"
            /\ UNCHANGED <<proc, crashed, fullPrompt, argv>>
       ELSE /\ fullPrompt' = Composed(composePrompt("pipe", body))
            /\ argv' = spawnFlags("pipe")
            /\ crashed' = crashed
            /\ IF spawned = "throw"
               THEN /\ resLog' = <<Call("writeHead", "200", <<>>),
                                   sseWrite("error", <<"Failed to start claude CLI">>),
                                   DoneFrame, EndCall>>
                    /\ phase' = "returned" /\ proc' = "threw"
               ELSE /\ resLog' = <<Call("writeHead", "200", <<>>)>>
                    /\ phase' = "relay"
                    /\ proc' = IF spawned = "error" THEN "failed" ELSE "running"

\* unnamed/part_000 handleChat, from the end of readBody to its return
handleChat_poll(body, spawned, fatal) ==
    /\ UNCHANGED <<pairVars, embeddedVars, httpVars, signalVars>>
    /\ variant = "poll" /\ phase = "body" /\ ~crashed
    /\ UNCHANGED <<variant, procEvents, procBuf, nLines, open, out, delivered,
                   buffer, bytesRead, fileSize, closed, connected, killed,
                   sigterm, trace>>
    /\ chatBody' = body
    /\ IF body.js = "throw"
       THEN /\ resLog' = <<Call("writeHead", "400", <<>>),
                           Call("end", "json", <<"error", "Invalid JSON">>)>>
            /\ phase' = "rejected"
            /\ UNCHANGED <<proc, files, pollpc, pending, crashed, fullPrompt, argv>>
       ELSE IF body.js = "null"
       \* body.prompt of null throws outside the try block (see handleChat_pipe)
       THEN /\ phase' = "threw" /\ crashed' = fatal
            /\ UNCHANGED <<resLog, proc, files, pollpc, pending, fullPrompt, argv>>
       ELSE IF body.prompt = ""
       THEN /\ resLog' = <<Call("writeHead", "400", <<>>),
                           Call("end", "json", <<"error", "Missing prompt">>)>>
            /\ phase' = "rejected"
            /\ UNCHANGED <<proc, files, pollpc, pending, crashed, fullPrompt, argv>>
       ELSE IF historyThrows(body.history)
       \* content.length of undefined throws while the prompt is composed,
       \* before the headers are written
       THEN /\ phase' = "threw" /\ crashed' = fatal
            /\ UNCHANGED <<resLog, proc, files, pollpc, pending, fullPrompt, argv>>
       ELSE /\ resLog' = <<Call("writeHead", "200", <<>>)>>
            /\ fullPrompt' = Composed(composePrompt("poll", body))
            /\ argv' = spawnFlags("poll")
            /\ files' = {"prompt"}
            /\ IF spawned = "throw"
               \* the exception leaves handleChat: nothing is registered and the
               \* promise is rejected with no handler, which ends the process
               \* or not, depending on the runtime
               THEN /\ phase' = "returned" /\ proc' = "threw" /\ pollpc' = pollpc
                    /\ pending' = pending
                    /\ crashed' = fatal
               ELSE /\ phase' = "relay"
                    /\ proc' = IF spawned = "error" THEN "failed" ELSE "spawned"
                    \* setTimeout(pollFile, 300)
                    /\ pollpc' = "timer"
                    /\ pending' = pending + 1
                    /\ crashed' = crashed

----------------------------------------------------------------------------
(* paautin-ai-config.js: the POST /paautin-ai/chat route and its handlers   *)

\* the four res.setHeader calls of the route
Headers == Call("setHeader", "text/event-stream", <<>>)

\* what a mode handler has done when it returns
Handled(wrote, ph, pr, up, prompt, flags) ==
    [wrote |-> wrote, phase |-> ph, proc |-> pr, upstream |-> up,
     fullPrompt |-> prompt, argv |-> flags]

\* cfg && cfg.credentials ? cfg.credentials.apiKey : ""
apiKeyOf(c) == IF c.exists THEN c.apiKey ELSE ""

\* handleSimpleMode up to its return: apiReq is written and ended
handleSimpleMode(c, messages, flowContext) ==
    IF apiKeyOf(c) = ""
    THEN Handled(<<sseWrite("error", <<"API Key no configurada">>)>> \o sseEnd,
                 "returned", "none", NoUpstream, NotComposed, <<>>)
    ELSE Handled(<<>>, "relay", "none",
                 Request("simple", "sent", apiKeyOf(c), messages), NotComposed, <<>>)

\* the prompt of handleClaudeCodeMode: lastMessage.content behind the flow block
claudeCodePrompt(lastMessage, fc) ==
    (IF fc.js = "object" /\ fc.nodes > 0
     THEN <<Lit("Context - active Node-RED flow (tab "), Lit(fc.tabId),
            Lit("): json fence"), Lit("JSON.stringify(nodes, null, 2)"),
            Lit("end of fence")>>
     ELSE <<>>)
    \o <<Lit(lastMessage)>>

\* handleClaudeCodeMode up to its return
handleClaudeCodeMode(c, messages, flowContext, spawned) ==
    IF messages = <<>>
    THEN Handled(<<sseWrite("error", <<"No message provided">>)>> \o sseEnd,
                 "returned", "none", NoUpstream, NotComposed, <<>>)
    ELSE LET prompt == Composed(claudeCodePrompt(Last(messages), flowContext))
             flags == spawnFlags("embedded")
         IN  IF spawned = "throw"
             THEN Handled(<<sseWrite("error", <<"No se pudo iniciar claude CLI">>)>>
                          \o sseEnd,
                          "returned", "threw", NoUpstream, prompt, flags)
             ELSE Handled(<<>>, "relay",
                          IF spawned = "error" THEN "failed" ELSE "running",
                          NoUpstream, prompt, flags)

\* handleServerMode up to its return: proxyReq is written and ended
handleServerMode(c, messages, flowContext) ==
    LET serverUrl == IF c.exists THEN c.serverUrl ELSE "" IN
    IF serverUrl = ""
    THEN Handled(<<sseWrite("error", <<"URL del servidor no configurada.">>)>>
                 \o sseEnd,
                 "returned", "none", NoUpstream, NotComposed, <<>>)
    ELSE IF serverUrl = "not a url"
    THEN Handled(<<sseWrite("error", <<"URL invalida: ", serverUrl>>)>> \o sseEnd,
                 "returned", "none", NoUpstream, NotComposed, <<>>)
    ELSE Handled(<<>>, "relay", "none",
                 Request("server", "sent", apiKeyOf(c), messages), NotComposed, <<>>)

\* effectiveMode with the mode of the request body ignored
effectiveMode_stored(body, c) == IF c.exists THEN c.mode ELSE "simple"

\* req.body.mode || (cfg ? cfg.mode : "simple")
effectiveMode(body, c) ==
    IF truthy(body.mode) THEN body.mode
    ELSE IF c.exists THEN c.mode ELSE "simple"

Modes == {"simple", "claude-code", "server"}

\* the route handler of POST /paautin-ai/chat, with the mode handler it calls
chat(body, spawned) ==
    /\ variant = "embedded" /\ phase = "body" /\ ~crashed
    /\ LET mode == effectiveMode(body, cfg)
           messages == IF body.messages.given THEN body.messages.list ELSE <<>>
           h == IF mode = "simple"
                THEN handleSimpleMode(cfg, messages, body.flowContext)
                ELSE IF mode = "claude-code"
                THEN handleClaudeCodeMode(cfg, messages, body.flowContext, spawned)
                ELSE IF mode = "server"
                THEN handleServerMode(cfg, messages, body.flowContext)
                ELSE Handled(<<sseWrite("error", <<"Unknown mode: ", mode>>)>> \o sseEnd,
                             "returned", "none", NoUpstream, NotComposed, <<>>)
       IN  /\ reqBody' = body
           /\ strategies' = IF mode \in Modes THEN <<mode>> ELSE <<>>
           /\ resLog' = <<Headers>> \o h.wrote
           /\ phase' = h.phase
           /\ proc' = h.proc
           /\ upstream' = h.upstream
           /\ fullPrompt' = h.fullPrompt
           /\ argv' = h.argv
    /\ UNCHANGED <<variant, procEvents, procBuf, nLines, open, out, files,
                   delivered, buffer, bytesRead, fileSize, pollpc, closed,
                   connected, killed, sigterm, trace, crashed>>
    /\ UNCHANGED <<pairVars, sideVars, cfg, errBody, configRes, chatBody>>

\* configJson with the credential copied into the answer
configJson_withKey(c) ==
    IF ~c.exists
    THEN [mode |-> "simple", model |-> "claude-sonnet-4-20250514",
          hasApiKey |-> "false"]
    ELSE [mode |-> c.mode, model |-> c.model, serverUrl |-> c.serverUrl,
          projectPath |-> c.projectPath, includeSkills |-> c.includeSkills,
          hasApiKey |-> IF c.apiKey # "" THEN "true" ELSE "false",
          apiKey |-> c.apiKey]

\* the object GET /paautin-ai/config answers with
configJson(c) ==
    IF ~c.exists
    THEN [mode |-> "simple", model |-> "claude-sonnet-4-20250514",
          hasApiKey |-> "false"]
    ELSE [mode |-> c.mode, model |-> c.model, serverUrl |-> c.serverUrl,
          projectPath |-> c.projectPath, includeSkills |-> c.includeSkills,
          hasApiKey |-> IF c.apiKey # "" THEN "true" ELSE "false"]

\* the route handler of GET /paautin-ai/config
getConfig ==
    /\ variant = "embedded" /\ ~configRes.sent /\ ~crashed
    /\ configRes' = [sent |-> TRUE, json |-> configJson(cfg)]
    /\ UNCHANGED <<relayVars, pairVars, promptVars, sideVars, cfg, reqBody, strategies,
                   upstream, errBody>>

----------------------------------------------------------------------------
(* The subprocess (the external CLI; in the poll relay, bash redirecting    *)
(* the CLI's output to the output file)                                     *)

\* bash opens the redirection target before it starts the CLI
ProcOpen ==
    /\ UNCHANGED beyond
    /\ variant = "poll" /\ proc = "spawned" /\ ~crashed
    /\ proc' = "running"
    /\ files' = files \cup {"out"}
    /\ UNCHANGED <<variant, phase, procEvents, procBuf, nLines, open, out,
                   delivered, buffer, bytesRead, fileSize, pollpc, closed,
                   connected, killed, sigterm, resLog, trace, crashed>>

\* the subprocess produces its next line; a line left without its newline
\* is the end of its output
ProcEmit(line, newline) ==
    /\ UNCHANGED beyond
    /\ proc = "running" /\ procBuf = <<>> /\ nLines < MaxLines /\ ~open
    /\ ~crashed
    /\ procBuf' = IF newline THEN line \o <<NL>> ELSE line
    /\ nLines' = nLines + 1
    /\ open' = ~newline
    /\ UNCHANGED <<variant, phase, proc, procEvents, out, files, delivered,
                   buffer, bytesRead, fileSize, pollpc, closed, connected,
                   killed, sigterm, resLog, trace, crashed>>

\* The sizes of one write(2).  Where the output file grows decides what a
\* poll reads, so the poll relay sees every size; a pipe is cut into chunks
\* by StdoutData whatever the writes were.
WriteSizes == IF variant = "poll" THEN 1..Len(procBuf) ELSE {Len(procBuf)}

\* one write(2) of the subprocess
ProcWrite(k) ==
    /\ UNCHANGED beyond
    /\ proc = "running" /\ k \in 1..Len(procBuf) /\ ~crashed
    /\ out' = out \o SubSeq(procBuf, 1, k)
    /\ procBuf' = SubSeq(procBuf, k + 1, Len(procBuf))
    /\ UNCHANGED <<variant, phase, proc, procEvents, nLines, open, files,
                   delivered, buffer, bytesRead, fileSize, pollpc, closed,
                   connected, killed, sigterm, resLog, trace, crashed>>

\* the subprocess exits: on its own once it has written everything, or at
\* any point after a SIGTERM
ProcExit ==
    /\ UNCHANGED beyond
    /\ proc \in {"spawned", "running"} /\ ~crashed
    /\ procBuf = <<>> \/ sigterm > 0
    /\ proc' = "exited"
    /\ procBuf' = <<>>
    /\ UNCHANGED <<variant, phase, procEvents, nLines, open, out, files,
                   delivered, buffer, bytesRead, fileSize, pollpc, closed,
                   connected, killed, sigterm, resLog, trace, crashed>>

----------------------------------------------------------------------------
(* The stdout-pipe relays: companion-server.js and paautin-ai-config.js     *)

\* proc.stdout.on("data", ...) with a chunk of k bytes
StdoutData(k) ==
    /\ UNCHANGED beyond
    /\ variant \in Streamed /\ phase = "relay" /\ ~crashed /\ ~ErrorPending
    /\ "close" \notin procEvents
    /\ k \in 1..(Len(out) - delivered)
    /\ LET chunk == SubSeq(out, delivered + 1, delivered + k)
           step == lineBufferStep(buffer, chunk)
           tr == forEachLine(variant, step.lines)
       IN  /\ buffer' = step.buffer
           /\ trace' = trace \o tr
           /\ resLog' = resLog \o wroteOf(tr)
    /\ delivered' = delivered + k
    /\ UNCHANGED <<variant, phase, proc, procEvents, procBuf, nLines, open, out,
                   files, bytesRead, fileSize, pollpc, closed, connected,
                   killed, sigterm, crashed>>

\* proc.on("error", ...): the executable could not be started.  The poll
\* relay registers no listener, so there the event ends the server process.
ProcError ==
    /\ UNCHANGED beyond
    /\ phase = "relay" /\ ErrorPending /\ ~crashed
    /\ procEvents' = procEvents \cup {"error"}
    /\ IF variant = "pipe"
       THEN /\ resLog' = resLog \o <<sseWrite("error", <<"claude CLI error">>),
                                      DoneFrame, EndCall>>
            /\ crashed' = crashed
       ELSE IF variant = "embedded"
       THEN /\ resLog' = resLog \o <<sseWrite("error", <<"claude CLI error">>)>>
                                \o sseEnd
            /\ crashed' = crashed
       ELSE /\ resLog' = resLog
            /\ crashed' = TRUE
    /\ UNCHANGED <<variant, phase, proc, procBuf, nLines, open, out, files,
                   delivered, buffer, bytesRead, fileSize, pollpc, closed,
                   connected, killed, sigterm, trace>>

\* proc.on("close", ...): emitted once the process has ended (or failed to
\* start) and its stdout has been read to the end
ProcClose ==
    /\ UNCHANGED beyond
    /\ variant \in Streamed /\ phase = "relay" /\ ~crashed
    /\ "close" \notin procEvents
    /\ \/ proc = "exited" /\ delivered = Len(out)
       \/ proc = "failed" /\ "error" \in procEvents
    /\ procEvents' = procEvents \cup {"close"}
    /\ resLog' = resLog \o <<DoneFrame, EndCall>>
    /\ UNCHANGED <<variant, phase, proc, procBuf, nLines, open, out, files,
                   delivered, buffer, bytesRead, fileSize, pollpc, closed,
                   connected, killed, sigterm, trace, crashed>>

\* req.on("close", ...) of companion-server.js, res.on("close", ...) of
\* handleClaudeCodeMode: if (proc && !proc.killed) proc.kill("SIGTERM").
\* kill() signals only a process that has not ended yet.
Disconnect ==
    /\ UNCHANGED beyond
    /\ variant \in Streamed /\ phase = "relay" /\ connected /\ ~crashed
    /\ ~ErrorPending
    /\ connected' = FALSE
    /\ IF ~killed /\ proc = "running"
       THEN killed' = TRUE /\ sigterm' = sigterm + 1
       ELSE UNCHANGED <<killed, sigterm>>
    /\ UNCHANGED <<variant, phase, proc, procEvents, procBuf, nLines, open, out,
                   files, delivered, buffer, bytesRead, fileSize, pollpc,
                   closed, resLog, trace, crashed>>

\* readBody when the client goes away while the body is still being read:
\* no 'end' is emitted, so the promise stays pending, unless the runtime
\* emits 'error' on the request, which rejects it and runs the catch branch
Abort(errorEvent) ==
    /\ UNCHANGED beyond
    /\ phase = "body" /\ connected /\ ~crashed
    /\ variant \in {"pipe", "poll"}
    /\ connected' = FALSE
    /\ IF errorEvent
       THEN /\ phase' = "rejected"
            /\ resLog' = <<Call("writeHead", "400", <<>>),
                           Call("end", "json", <<"error", "Invalid JSON">>)>>
       ELSE /\ phase' = "aborted"
            /\ resLog' = resLog
    /\ UNCHANGED <<variant, proc, procEvents, procBuf, nLines, open, out, files,
                   delivered, buffer, bytesRead, fileSize, pollpc, closed,
                   killed, sigterm, trace, crashed>>

----------------------------------------------------------------------------
(* The temp-file relay: unnamed/part_000                                    *)

\* cleanup(): both unlinkSync calls, each in its own try/catch
cleanup(fs) == fs \ {"prompt", "out"}

\* req.on("close", ...): closed = true, SIGTERM to the process group, cleanup.
\* It cannot run inside a poll; the signal reaches a group that still exists.
ReqClose ==
    /\ UNCHANGED <<pairVars, embeddedVars, promptVars, httpVars, timerVars>>
    /\ variant = "poll" /\ phase = "relay" /\ connected /\ ~crashed
    /\ ~ErrorPending /\ pollpc # "statted"
    /\ connected' = FALSE
    /\ closed' = TRUE
    /\ sigterm' = IF proc \in {"spawned", "running"} THEN sigterm + 1 ELSE sigterm
    \* process.kill(-procPid, "SIGTERM") is called whatever became of the
    \* subprocess: once bash has ended the signal goes to whatever is left in,
    \* or has since taken, the process group of that id, or to nothing (ESRCH)
    /\ \E member \in (IF proc = "exited" THEN BOOLEAN ELSE {FALSE}) :
          stray' = IF member THEN stray + 1 ELSE stray
    /\ files' = cleanup(files)
    /\ UNCHANGED <<variant, phase, proc, procEvents, procBuf, nLines, open, out,
                   delivered, buffer, bytesRead, fileSize, pollpc, killed,
                   resLog, trace, crashed>>

\* PollRead without the closed guard at the start of pollFile
PollRead_noClosedGuard ==
    /\ UNCHANGED <<pairVars, embeddedVars, promptVars, httpVars, signalVars>>
    /\ variant = "poll" /\ pollpc = "timer" /\ pending > 0
    /\ ~crashed /\ ~ErrorPending
    /\ IF "out" \notin files
       THEN \* statSync throws: setTimeout(pollFile, 200)
            /\ pollpc' = "timer"
            /\ pending' = (pending - 1) + 1
            /\ UNCHANGED <<fileSize, bytesRead, buffer, trace, resLog>>
       ELSE /\ fileSize' = Len(out)
            /\ pollpc' = "statted"
            /\ pending' = pending - 1
            /\ IF Len(out) > bytesRead
               THEN LET chunk == SubSeq(out, bytesRead + 1, Len(out))
                        step == lineBufferStep(buffer, chunk)
                        tr == forEachLine(variant, step.lines)
                    IN  /\ bytesRead' = Len(out)
                        /\ buffer' = step.buffer
                        /\ trace' = trace \o tr
                        /\ resLog' = resLog \o wroteOf(tr)
                            ELSE UNCHANGED <<bytesRead, buffer, trace, resLog>>
    /\ UNCHANGED <<variant, phase, proc, procEvents, procBuf, nLines, open, out,
                   files, delivered, closed, connected, killed, sigterm, crashed>>

\* PollRead reading from the start of the file at every poll
PollRead_reread ==
    /\ UNCHANGED <<pairVars, embeddedVars, promptVars, httpVars, signalVars>>
    /\ variant = "poll" /\ pollpc = "timer" /\ pending > 0
    /\ ~crashed /\ ~ErrorPending
    /\ IF closed
       THEN /\ pollpc' = "none"
            /\ pending' = pending - 1
            /\ UNCHANGED <<fileSize, bytesRead, buffer, trace, resLog>>
       ELSE IF "out" \notin files
       THEN \* statSync throws: setTimeout(pollFile, 200)
            /\ pollpc' = "timer"
            /\ pending' = (pending - 1) + 1
            /\ UNCHANGED <<fileSize, bytesRead, buffer, trace, resLog>>
       ELSE /\ fileSize' = Len(out)
            /\ pollpc' = "statted"
            /\ pending' = pending - 1
            /\ IF Len(out) > bytesRead
               THEN LET chunk == SubSeq(out, 1, Len(out))
                        step == lineBufferStep(buffer, chunk)
                        tr == forEachLine(variant, step.lines)
                    IN  /\ bytesRead' = Len(out)
                        /\ buffer' = step.buffer
                        /\ trace' = trace \o tr
                        /\ resLog' = resLog \o wroteOf(tr)
                            ELSE UNCHANGED <<bytesRead, buffer, trace, resLog>>
    /\ UNCHANGED <<variant, phase, proc, procEvents, procBuf, nLines, open, out,
                   files, delivered, closed, connected, killed, sigterm, crashed>>

\* pollFile, from its start to the liveness check: the closed guard,
\* statSync, and the read of the bytes between bytesRead and the sampled size
PollRead ==
    /\ UNCHANGED <<pairVars, embeddedVars, promptVars, httpVars, signalVars>>
    /\ variant = "poll" /\ pollpc = "timer" /\ pending > 0
    /\ ~crashed /\ ~ErrorPending
    /\ IF closed
       THEN /\ pollpc' = "none"
            /\ pending' = pending - 1
            /\ UNCHANGED <<fileSize, bytesRead, buffer, trace, resLog>>
       ELSE IF "out" \notin files
       THEN \* statSync throws: setTimeout(pollFile, 200)
            /\ pollpc' = "timer"
            /\ pending' = (pending - 1) + 1
            /\ UNCHANGED <<fileSize, bytesRead, buffer, trace, resLog>>
       ELSE /\ fileSize' = Len(out)
            /\ pollpc' = "statted"
            /\ pending' = pending - 1
            /\ IF Len(out) > bytesRead
               THEN LET chunk == SubSeq(out, bytesRead + 1, Len(out))
                        step == lineBufferStep(buffer, chunk)
                        tr == forEachLine(variant, step.lines)
                    IN  /\ bytesRead' = Len(out)
                        /\ buffer' = step.buffer
                        /\ trace' = trace \o tr
                        /\ resLog' = resLog \o wroteOf(tr)
                            ELSE UNCHANGED <<bytesRead, buffer, trace, resLog>>
    /\ UNCHANGED <<variant, phase, proc, procEvents, procBuf, nLines, open, out,
                   files, delivered, closed, connected, killed, sigterm, crashed>>

\* pollFile, from the liveness check to its return: process.kill(procPid, 0),
\* then either the final flush, [DONE], end and cleanup, or the next timer
PollAlive ==
    /\ UNCHANGED <<pairVars, embeddedVars, promptVars, httpVars, signalVars>>
    /\ variant = "poll" /\ pollpc = "statted" /\ ~crashed
    /\ LET alive == proc \in {"spawned", "running"} IN
       IF ~alive /\ fileSize <= bytesRead
       THEN LET flush == IF trim(buffer) # <<>>
                         THEN <<[line |-> buffer, final |-> TRUE,
                                 wrote |-> processLine(buffer).wrote]>>
                         ELSE <<>>
            IN  /\ trace' = trace \o flush
                /\ resLog' = resLog \o wroteOf(flush) \o <<DoneFrame, EndCall>>
                /\ files' = cleanup(files)
                /\ pollpc' = "done"
                /\ pending' = pending
       ELSE \* setTimeout(pollFile, 150)
            /\ pollpc' = "timer"
            /\ pending' = pending + 1
            /\ UNCHANGED <<trace, resLog, files>>
    /\ UNCHANGED <<variant, phase, proc, procEvents, procBuf, nLines, open, out,
                   delivered, buffer, bytesRead, fileSize, closed, connected,
                   killed, sigterm, crashed>>

----------------------------------------------------------------------------

Next ==
    \/ \E body \in RelayBodies, spawned \in {"ok", "throw", "error"},
          fatal \in BOOLEAN :
          handleChat_pipe(body, spawned, fatal)
    \/ \E body \in RelayBodies, spawned \in {"ok", "throw", "error"},
          fatal \in BOOLEAN :
          handleChat_poll(body, spawned, fatal)
    \/ \E body \in RelayRequests, spawned \in {"ok", "throw", "error"} :
          chat(body, spawned)
    \/ \E errorEvent \in BOOLEAN : Abort(errorEvent)
    \/ ProcOpen
    \/ \E line \in ProcLines, newline \in BOOLEAN : ProcEmit(line, newline)
    \/ \E k \in WriteSizes : ProcWrite(k)
    \/ ProcExit
    \/ \E k \in 1..(Len(out) - delivered) : StdoutData(k)
    \/ ProcError
    \/ ProcClose
    \/ Disconnect
    \/ ReqClose
    \/ PollRead
    \/ PollAlive

Spec == Init /\ [][Next]_vars

----------------------------------------------------------------------------
(* Properties *)

Indices(log, e) == {i \in DOMAIN log : log[i] = e}
DoneCount == Cardinality(Indices(resLog, DoneFrame))
EndCount == Cardinality({i \in DOMAIN resLog : resLog[i].op = "end"})

\* the response was opened as an SSE stream
SseOpened ==
    /\ resLog # <<>>
    /\ \/ resLog[1].op = "writeHead" /\ resLog[1].type = "200"
       \/ resLog[1].op = "setHeader"

\* the calls made on the response after its headers
SseCalls == Tail(resLog)

\* the bytes of the upstream output the relay has taken in so far
Taken == SubSeq(out, 1, IF variant = "poll" THEN bytesRead ELSE delivered)

\* the lines handed to the per-line callback by the line buffer
RECURSIVE bufferedLines(_)
bufferedLines(tr) ==
    IF tr = <<>> THEN <<>>
    ELSE (IF Head(tr).final THEN <<>> ELSE <<Head(tr).line>>)
         \o bufferedLines(Tail(tr))

\* C1: on an opened SSE stream exactly one [DONE] is written, it is the last
\* thing written, and the response is ended exactly once: never two [DONE],
\* never two ends, and an end only right after the [DONE], as the last call.
C1_ExactlyOneDone ==
    SseOpened =>
        /\ DoneCount <= 1
        /\ EndCount <= 1
        /\ \A i \in DOMAIN resLog :
              resLog[i].op = "end" =>
                  /\ i = Len(resLog)
                  /\ i > 1
                  /\ resLog[i - 1] = DoneFrame
        /\ \A i \in DOMAIN resLog :
              resLog[i] = DoneFrame =>
                  \A j \in (i + 1)..Len(resLog) : resLog[j].op # "write"

\* C2: however the upstream output is cut into chunks, the lines handed to
\* the per-line callback are the complete lines of the output taken in so
\* far, decoded as one piece.
C2_ChunkingIndependence ==
    bufferedLines(trace) = Front(split(toString(Taken)))

\* C3: after the client disconnects, a subprocess that is still running has
\* been sent SIGTERM, and nothing more is written to the response and it is
\* not ended.
C3_DisconnectStopsRelay ==
    /\ [](~connected /\ proc \in {"spawned", "running"} => sigterm > 0)
    /\ [][~connected => resLog' = resLog]_vars

\* C4: when the upstream closes and [DONE] is written while the line buffer
\* holds a non-blank partial line, that text was handed to the per-line
\* callback as a final line, and what it wrote precedes the [DONE].
C4_FlushBeforeDone ==
    (proc = "exited" /\ DoneCount >= 1 /\ trim(buffer) # <<>>) =>
        /\ trace # <<>>
        /\ Last(trace).final
        /\ Last(trace).line = buffer
        /\ \E i \in DOMAIN resLog :
              /\ resLog[i] = DoneFrame
              /\ i > Len(Last(trace).wrote)
              /\ SubSeq(resLog, i - Len(Last(trace).wrote), i - 1) = Last(trace).wrote

\* the upstream value of a line handed to the per-line callback
Parsed(e) == JSONparse(e.line)
NotAnEvent(e) == trim(e.line) # <<>> /\ Parsed(e).js \in {"throw", "null", "number"}
NewlinesIn(bytes) == Cardinality({i \in DOMAIN bytes : bytes[i] = NL})
Frames(wrote, type) == {i \in DOMAIN wrote : wrote[i].type = type}

\* C5: a complete line that is not JSON, or is JSON but no event object,
\* writes nothing and does not stop the relay: every complete line taken in
\* so far has been handed to the per-line callback, and once the subprocess
\* has closed the stream has its [DONE].
C5_BadLineSkipped ==
    /\ \A i \in DOMAIN trace : NotAnEvent(trace[i]) => trace[i].wrote = <<>>
    /\ Len(bufferedLines(trace)) = NewlinesIn(Taken)
    /\ ("close" \in procEvents \/ pollpc = "done") => DoneCount >= 1

\* a bad line was followed by a line that wrote events, and the stream ended
C5_Witness ==
    /\ \E i, j \in DOMAIN trace :
          /\ i < j
          /\ NotAnEvent(trace[i])
          /\ trace[j].wrote # <<>>
    /\ DoneCount = 1

TextOrTool(content) ==
    \A i \in DOMAIN content :
        content[i].js = "object" /\ content[i].type \in {"text", "tool_use"}

IsAssistant(evt) ==
    /\ evt.js = "object" /\ evt.type = "assistant"
    /\ evt.message # Undefined /\ evt.contentIsArray

\* C6: an assistant event whose content is N blocks, each a text or a
\* tool_use block, writes exactly N events: the i-th is a text event with
\* the block's text for a text block, and a tool_use event with
\* {tool: name, input: input} for a tool_use block.
C6_BlocksInOrder ==
    \A k \in DOMAIN trace :
        LET evt == Parsed(trace[k])
            wrote == trace[k].wrote
        IN  (IsAssistant(evt) /\ TextOrTool(evt.content)) =>
                /\ Len(wrote) = Len(evt.content)
                /\ \A i \in DOMAIN wrote :
                      LET block == evt.content[i] IN
                      /\ wrote[i].op = "write"
                      /\ block.type = "text" =>
                            /\ wrote[i].type = "text"
                            /\ wrote[i].content = <<block.text>>
                      /\ block.type = "tool_use" =>
                            /\ wrote[i].type = "tool_use"
                            /\ wrote[i].content =
                                  <<"{}", "tool", block.name, "input", block.input>>

\* an assistant event of three blocks (tool_use, text, tool_use) was relayed
C6_Witness ==
    \E k \in DOMAIN trace :
        /\ IsAssistant(Parsed(trace[k]))
        /\ Len(Parsed(trace[k]).content) = 3
        /\ Parsed(trace[k]).content[1].type = "tool_use"
        /\ Parsed(trace[k]).content[2].type = "text"
        /\ Parsed(trace[k]).content[3].type = "tool_use"
        /\ Len(trace[k].wrote) = 3

\* the types of a sequence of frames
typesOf(frames) == [i \in DOMAIN frames |-> frames[i].type]

IsResult(evt) == evt.js = "object" /\ evt.type = "result"

\* C8 as stated: a result event writes a result frame carrying its result
\* field whenever the field is present, whatever its value, and none when
\* the field is absent.
C8_ResultWhenPresent ==
    \A k \in DOMAIN trace :
        LET evt == Parsed(trace[k])
            wrote == trace[k].wrote
        IN  IsResult(evt) =>
                IF evt.result # Undefined
                THEN \E i \in DOMAIN wrote :
                        /\ wrote[i].type = "result"
                        /\ wrote[i].content = <<evt.result>>
                ELSE Frames(wrote, "result") = {}

\* C8 as amended: a result event writes exactly one result frame, carrying
\* its result field, when the field is present and truthy (of the values the
\* subprocess writes here: not the empty string), and no result frame when
\* the field is absent or falsy.
C8_ResultWhenNonEmpty ==
    \A k \in DOMAIN trace :
        LET evt == Parsed(trace[k])
            wrote == trace[k].wrote
        IN  IsResult(evt) =>
                IF evt.result # Undefined /\ evt.result # ""
                THEN /\ Cardinality(Frames(wrote, "result")) = 1
                     /\ \A i \in Frames(wrote, "result") :
                           wrote[i].content = <<evt.result>>
                ELSE Frames(wrote, "result") = {}

\* a result event with a non-empty result and one with an empty result were
\* both relayed in the same stream
C8_Witness ==
    /\ \E k \in DOMAIN trace :
          /\ IsResult(Parsed(trace[k]))
          /\ Parsed(trace[k]).result = "ok"
          /\ Frames(trace[k].wrote, "result") # {}
    /\ \E k \in DOMAIN trace :
          /\ IsResult(Parsed(trace[k]))
          /\ Parsed(trace[k]).result = ""
          /\ trace[k].wrote = <<>>

\* C9: a result event that carries a cost field (total_cost_usd or cost_usd)
\* writes a cost frame carrying that value, after the result frame of the
\* same line, in every subprocess relay.
C9_CostRelayed ==
    \A k \in DOMAIN trace :
        LET evt == Parsed(trace[k])
            wrote == trace[k].wrote
            cost == IF evt.total_cost_usd # Undefined
                    THEN evt.total_cost_usd ELSE evt.cost_usd
        IN  (IsResult(evt) /\ cost # Undefined) =>
                \E i \in DOMAIN wrote :
                    /\ wrote[i].type = "cost"
                    /\ wrote[i].content = <<cost>>
                    /\ \A j \in Frames(wrote, "result") : j < i

\* C10: once the spawn has thrown, or the child's 'error' event for a failed
\* start has been emitted, the server process is alive and the response
\* holds, after its headers, one error event, [DONE] and the end, and
\* nothing else.
C10_SpawnFailureReported ==
    (proc = "threw" \/ (proc = "failed" /\ "error" \in procEvents)) =>
        /\ ~crashed
        /\ Len(SseCalls) = 3
        /\ SseCalls[1].op = "write" /\ SseCalls[1].type = "error"
        /\ SseCalls[2] = DoneFrame
        /\ SseCalls[3] = EndCall

----------------------------------------------------------------------------
(* Two requests served together by the temp-file relay (unnamed/part_000)   *)

\* a write(2) of one line at offset off of a file: it replaces what is there
\* or extends the file, leaving a hole when off is beyond the end
writeAt(data, off, line) ==
    IF off < Len(data) THEN [data EXCEPT ![off + 1] = line]
    ELSE data \o [i \in 1..(off - Len(data)) |-> Hole] \o <<line>>

\* cleanup() of the request whose files carry the time stamp ts
unlinkBoth(dir, ts) ==
    [prompt |-> [dir.prompt EXCEPT ![ts] = Absent],
     out |-> [dir.out EXCEPT ![ts] = Absent]]

\* the clock advances by a millisecond
Tick ==
    /\ now < MaxClock
    /\ now' = now + 1
    /\ UNCHANGED <<relayVars, embeddedVars, promptVars, sideVars, tmpdir, inodes, reqs>>

\* handleChat for request r with a good body: the names of its temp files
\* come from Date.now(), the prompt is written, bash is spawned
pair_handleChat(r) ==
    /\ reqs[r].pc = "new"
    /\ tmpdir' = [tmpdir EXCEPT !.prompt[now] = promptOf(r)]
    /\ reqs' = [reqs EXCEPT ![r].pc = "relay", ![r].ts = now,
                              ![r].proc = "spawned"]
    /\ UNCHANGED <<relayVars, embeddedVars, promptVars, sideVars, now, inodes>>

\* bash runs the command line of request r: $(cat tmpPrompt) is expanded,
\* then the redirection creates the output file or truncates the file that
\* carries the name, then the CLI starts with the prompt that was read
pair_bash(r) ==
    LET q == reqs[r]
        ino == IF tmpdir.out[q.ts] = Absent THEN r ELSE tmpdir.out[q.ts]
    IN  /\ q.proc = "spawned"
        /\ tmpdir' = [tmpdir EXCEPT !.out[q.ts] = ino]
        /\ inodes' = [inodes EXCEPT ![ino] = <<>>]
        /\ reqs' = [reqs EXCEPT
                       ![r].proc = "running",
                       ![r].given = IF tmpdir.prompt[q.ts] = Absent THEN ""
                                    ELSE tmpdir.prompt[q.ts],
                       ![r].fd = ino, ![r].off = 0, ![r].left = MaxOut]
        /\ UNCHANGED <<relayVars, embeddedVars, promptVars, sideVars, now>>

\* the CLI of request r writes its next line through its own descriptor
pair_write(r) ==
    LET q == reqs[r] IN
    /\ q.proc = "running" /\ q.left > 0
    /\ inodes' = [inodes EXCEPT
                     ![q.fd] = writeAt(@, q.off, OutLine(r, MaxOut - q.left + 1))]
    /\ reqs' = [reqs EXCEPT ![r].off = q.off + 1, ![r].left = q.left - 1]
    /\ UNCHANGED <<relayVars, embeddedVars, promptVars, sideVars, now, tmpdir>>

\* the CLI of request r has written everything and exits
pair_exit(r) ==
    /\ reqs[r].proc = "running" /\ reqs[r].left = 0
    /\ reqs' = [reqs EXCEPT ![r].proc = "exited"]
    /\ UNCHANGED <<relayVars, embeddedVars, promptVars, sideVars, now, tmpdir, inodes>>

\* pollFile of request r once its output file name is linked (before that
\* statSync throws and the poll only re-arms its timer): the new lines are
\* relayed, and when the subprocess of r is gone the stream is ended and
\* cleanup() unlinks both names
pair_pollFile(r) ==
    LET q == reqs[r]
        ino == tmpdir.out[q.ts]
    IN  /\ q.pc = "relay" /\ ino # Absent
        /\ LET data == inodes[ino]
               fresh == IF Len(data) > q.bytesRead
                        THEN SubSeq(data, q.bytesRead + 1, Len(data)) ELSE <<>>
               alive == q.proc \in {"spawned", "running"}
           IN  /\ reqs' = [reqs EXCEPT
                              ![r].bytesRead = IF Len(data) > q.bytesRead
                                               THEN Len(data) ELSE q.bytesRead,
                              ![r].seen = q.seen \o SelectSeq(fresh, LAMBDA l : l # Hole),
                              ![r].pc = IF alive THEN "relay" ELSE "done"]
               /\ tmpdir' = IF alive THEN tmpdir ELSE unlinkBoth(tmpdir, q.ts)
        /\ UNCHANGED <<relayVars, embeddedVars, promptVars, sideVars, now, inodes>>

\* req.on("close") of request r: closed = true, SIGTERM to the process group
\* of its subprocess, cleanup()
pair_reqClose(r) ==
    LET q == reqs[r] IN
    /\ q.pc = "relay"
    /\ reqs' = [reqs EXCEPT
                   ![r].pc = "closed", ![r].closed = TRUE,
                   ![r].proc = IF q.proc \in {"spawned", "running"}
                               THEN "exited" ELSE q.proc]
    /\ tmpdir' = unlinkBoth(tmpdir, q.ts)
    /\ UNCHANGED <<relayVars, embeddedVars, promptVars, sideVars, now, inodes>>

InitPair ==
    /\ variant = "poll"
    /\ RelayIdle
    /\ PairIdle
    /\ EmbeddedIdle
    /\ PromptIdle
    /\ HttpIdle

NextPair ==
    \/ Tick
    \/ \E r \in Requests : pair_handleChat(r)
    \/ \E r \in Requests : pair_bash(r)
    \/ \E r \in Requests : pair_write(r)
    \/ \E r \in Requests : pair_exit(r)
    \/ \E r \in Requests : pair_pollFile(r)
    \/ \E r \in Requests : pair_reqClose(r)

SpecPair == InitPair /\ [][NextPair]_vars

\* request r got its own prompt, relayed only its own output, and while it
\* is being served its temp files are there and hold what it has read
Isolated(r) ==
    LET q == reqs[r] IN
    /\ q.given # Undefined => q.given = promptOf(r)
    /\ \A i \in DOMAIN q.seen : q.seen[i].from = r
    /\ (q.pc = "relay" /\ q.proc = "spawned") => tmpdir.prompt[q.ts] = promptOf(r)
    /\ (q.pc = "relay" /\ q.proc \in {"running", "exited"}) =>
          /\ tmpdir.out[q.ts] = r
          /\ Len(inodes[r]) >= q.bytesRead

\* C11: concurrent requests are isolated, whatever the interleaving and also
\* when two requests are accepted in the same millisecond: each subprocess is
\* given the prompt of its own request, each response carries only events of
\* its own subprocess, and the cleanup or cancellation of one request leaves
\* the files of another active request alone.
C11_RequestsIsolated == \A r \in Requests : Isolated(r)

----------------------------------------------------------------------------
(* Request validation of the companion /chat endpoint *)

\* the request body lacks a prompt: the JSON text null, or a value whose
\* prompt member is missing or empty
PromptMissing == chatBody.js = "null" \/ (chatBody.js = "object" /\ chatBody.prompt = "")

\* C12: on the companion /chat endpoint a body that is no JSON, and a body
\* whose prompt is missing or empty, are answered with HTTP 400 and the JSON
\* error object Invalid JSON / Missing prompt; no SSE headers are sent, no
\* subprocess is spawned and no temp file is created.
C12_BadBodyRejected ==
    (variant \in {"pipe", "poll"} /\ (chatBody.js = "throw" \/ PromptMissing)) =>
        /\ resLog = <<Call("writeHead", "400", <<>>),
                      Call("end", "json",
                           <<"error", IF chatBody.js = "throw" THEN "Invalid JSON"
                                      ELSE "Missing prompt">>)>>
        /\ ~SseOpened
        /\ proc = "none"
        /\ files = {}

----------------------------------------------------------------------------
(* Prompt assembly of the companion /chat handlers, over many bodies *)

\* entries of body.history
MaxHistory == 2

HistoryEntries ==
    { Msg("user", "string", 1), Msg("assistant", "string", Budget + 1),
      Msg("user", "object", Budget), Msg("assistant", "object", Budget + 1),
      Msg("system", "string", 1), Msg("user", "undefined", 0) }

Histories ==
    UNION { [1..n -> HistoryEntries] : n \in 0..MaxHistory }

PromptBodies ==
    {InvalidJson, NullJson} \cup
    { ChatBody("object", p, h, f) :
        p \in {"", "hi"}, h \in Histories,
        f \in {NullFlow, Flow(0, "Flow 1"), Flow(1, "Flow 1"), Flow(2, "")} }

InitPrompt ==
    /\ variant \in {"pipe", "poll"}
    /\ RelayIdle
    /\ PairIdle
    /\ EmbeddedIdle
    /\ PromptIdle
    /\ HttpIdle

NextPrompt ==
    \/ \E body \in PromptBodies, spawned \in {"ok", "throw", "error"},
          fatal \in BOOLEAN :
          handleChat_pipe(body, spawned, fatal)
    \/ \E body \in PromptBodies, spawned \in {"ok", "throw", "error"},
          fatal \in BOOLEAN :
          handleChat_poll(body, spawned, fatal)

SpecPrompt == InitPrompt /\ [][NextPrompt]_vars

\* the transcript lines the history asks for: every entry once, in order,
\* under its role, cut to Budget characters and marked when it is longer
RECURSIVE TranscriptLines(_, _)
TranscriptLines(history, i) ==
    IF i > Len(history) THEN <<>>
    ELSE <<Lit(IF history[i].role = "user" THEN "User: " ELSE "Assistant: "),
           ContentOf(i, IF history[i].len > Budget THEN Budget ELSE history[i].len)>>
         \o (IF history[i].len > Budget THEN <<Lit("...")>> ELSE <<>>)
         \o <<Lit(NL)>>
         \o TranscriptLines(history, i + 1)

\* C19: the composed prompt is a function of (prompt, history, flowContext)
\* alone: without history and without flow nodes it is the raw prompt; a
\* flow context of at least one node puts the fenced flow block first; a
\* non-empty history (of user and assistant entries) puts after it the
\* transcript, every entry once, in order, under its role, cut to 500
\* characters plus the marker when longer, then the current-message
\* delimiter; the raw prompt is the last part; and both companion variants
\* compose the same prompt for the same body.
C19_PromptAssembly ==
    fullPrompt.composed =>
        LET b == chatBody
            t == fullPrompt.text
            hasFlow == b.flowContext.js = "object" /\ b.flowContext.nodes > 0
            f == IF hasFlow THEN 5 ELSE 0
            known == \A i \in DOMAIN b.history : b.history[i].role \in {"user", "assistant"}
        IN  /\ (~hasFlow /\ b.history = <<>>) => t = <<Lit(b.prompt)>>
            /\ hasFlow =>
                  /\ Len(t) > f
                  /\ t[1] = Lit("Context - active Node-RED flow (tab: ")
                  /\ t[f] = Lit("end of fence")
            /\ (b.history # <<>> /\ known) =>
                  SubSeq(t, f + 1, Len(t)) =
                      <<Lit("Conversation history:")>>
                      \o TranscriptLines(b.history, 1)
                      \o <<Lit("Current message:"), Lit(b.prompt)>>
            /\ t # <<>> /\ Last(t) = Lit(b.prompt)
            /\ composePrompt("pipe", b) = composePrompt("poll", b)

----------------------------------------------------------------------------
(* The embedded routes over every configuration and request body *)

ApiKeys == {"", "key1", "key2"}

Configs ==
    {NoConfigNode} \cup
    { ConfigNode(TRUE, m, u, k) :
        m \in {"simple", "claude-code", "server", "bogus"},
        u \in {"", "not a url", "http://host/"},
        k \in ApiKeys }

RouteBodies ==
    { Body(m, msgs, f) :
        m \in {Undefined, "simple", "claude-code", "server", "bogus"},
        msgs \in {NoMessages, Messages(<<>>), Messages(<<"m1">>),
                  Messages(<<"m1", "m2">>), Messages(<<"m2", "m1">>)},
        f \in {NullFlow, Flow(1, "Flow 1")} }

InitRoute ==
    /\ variant = "embedded"
    /\ RelayIdle
    /\ PairIdle
    /\ PromptIdle
    /\ HttpIdle
    /\ cfg \in Configs
    /\ reqBody = NoBody
    /\ strategies = <<>>
    /\ upstream = NoUpstream
    /\ errBody = <<>>
    /\ configRes = NoAnswer

NextRoute ==
    \/ \E body \in RouteBodies, spawned \in {"ok", "throw", "error"} :
          chat(body, spawned)
    \/ getConfig

SpecRoute == InitRoute /\ [][NextRoute]_vars

\* the chat route has handled the request
ChatHandled == variant = "embedded" /\ phase # "body"

\* C13: on the embedded chat route a request without messages, or with an
\* empty list, is answered with HTTP 400 in every mode: no SSE stream is
\* opened, no subprocess is spawned and no outbound request is made.
C13_MissingMessages400 ==
    (ChatHandled /\ reqBody.messages.list = <<>>) =>
        /\ \E i \in DOMAIN resLog : resLog[i].type = "400"
        /\ ~SseOpened
        /\ proc = "none"
        /\ upstream.state = "none"

\* the mode the configuration node stores ("simple" without a node)
storedMode == IF cfg.exists THEN cfg.mode ELSE "simple"

\* mode m was dispatched: for one of the three modes exactly its strategy
\* ran, and nothing of the others (no subprocess outside claude-code, no
\* outbound request of another kind); for any other value one error event
\* and [DONE] were written at once, nothing spawned, nothing sent
Dispatched(m) ==
    IF m \in Modes
    THEN /\ strategies = <<m>>
         /\ m # "claude-code" => proc = "none"
         /\ upstream.kind \in {"none", m}
    ELSE /\ strategies = <<>>
         /\ Len(resLog) = 4
         /\ resLog[1] = Headers
         /\ resLog[2].op = "write" /\ resLog[2].type = "error"
         /\ resLog[3] = DoneFrame
         /\ resLog[4] = EndCall
         /\ proc = "none"
         /\ upstream.state = "none"

\* C14 as stated: the strategy that runs is the one the stored configuration
\* mode names.
C14_StoredModeDecides == ChatHandled => Dispatched(storedMode)

\* C14: every chat request is handled by exactly one of the strategies
\* simple, claude-code, server, named by the mode of the request body when
\* it carries one and by the stored configuration mode otherwise; any other
\* mode value gives at once one error event and [DONE], with no subprocess
\* and no outbound request.
C14_ModeDispatch ==
    ChatHandled =>
        Dispatched(IF truthy(reqBody.mode) THEN reqBody.mode ELSE storedMode)

\* a request naming a mode other than the stored one was dispatched to it
C14_Witness ==
    /\ ChatHandled
    /\ truthy(reqBody.mode) /\ reqBody.mode # storedMode
    /\ reqBody.mode \in Modes
    /\ strategies = <<reqBody.mode>>

\* C18: the answer of GET /paautin-ai/config has no credential member and
\* no member holding the key, tells by hasApiKey only whether a key is set,
\* and is the same for every other non-empty key in the same configuration.
C18_ConfigHidesKey ==
    configRes.sent =>
        LET json == configRes.json IN
        /\ DOMAIN json \cap {"apiKey", "credentials"} = {}
        /\ cfg.apiKey # "" => \A m \in DOMAIN json : json[m] # cfg.apiKey
        /\ json.hasApiKey = (IF cfg.exists /\ cfg.apiKey # "" THEN "true" ELSE "false")
        /\ cfg.apiKey # "" =>
              \A k \in ApiKeys \ {""} :
                  configJson([cfg EXCEPT !.apiKey = k]) = json

\* the configuration with a key was asked for
C18_Witness ==
    /\ configRes.sent
    /\ cfg.exists /\ cfg.apiKey = "key1"
    /\ configRes.json.hasApiKey = "true"

----------------------------------------------------------------------------
(* The embedded claude-code mode beside the companion relay *)

\* the flags of the embedded spawn are those of the companion
SameFlags == argv # <<>> => argv = spawnFlags("pipe")

\* every upstream line taken in wrote the frames the companion writes for it
SameFrames ==
    \A k \in DOMAIN trace :
        trace[k].wrote = companionLine(trace[k].line).wrote

\* the prompt is composed from the last message and the flow context alone
LastMessageOnly ==
    fullPrompt # NotComposed =>
        fullPrompt = Composed(claudeCodePrompt(Last(reqBody.messages.list),
                                               reqBody.flowContext))

\* C15: the embedded claude-code mode spawns the subprocess with the flag
\* set of the companion relay (streaming JSON output, turn limit, model
\* name, session persistence disabled), writes for the same upstream output
\* the frames the companion writes, and builds its prompt from the last
\* entry of messages only.
C15_EmbeddedAsCompanion ==
    (variant = "embedded" /\ strategies = <<"claude-code">>) =>
        /\ SameFlags
        /\ SameFrames
        /\ LastMessageOnly

----------------------------------------------------------------------------
(* The relays fed with content blocks that lack their fields *)

FrameLines ==
    { <<"{asst[text{},tool{}]", "}">>,
      <<"{asst[text]", "}">>,
      <<"{result:ok,cost_usd", "}">> }

FrameBody == ChatBody("object", "hi", <<>>, NullFlow)

FrameRequest == Body("claude-code", Messages(<<"hi">>), NullFlow)

NextFrames ==
    \/ handleChat_pipe(FrameBody, "ok", FALSE)
    \/ handleChat_poll(FrameBody, "ok", FALSE)
    \/ chat(FrameRequest, "ok")
    \/ ProcOpen
    \/ \E line \in FrameLines : ProcEmit(line, TRUE)
    \/ \E k \in WriteSizes : ProcWrite(k)
    \/ ProcExit
    \/ \E k \in 1..(Len(out) - delivered) : StdoutData(k)
    \/ ProcClose
    \/ PollRead
    \/ PollAlive

SpecFrames == Init /\ [][NextFrames]_vars

EventTypes == {"text", "tool_use", "result", "cost", "error"}

\* C17: every frame written to the response is the [DONE] sentinel or a
\* JSON object whose type is one of text, tool_use, result, cost, error and
\* which has a content member, also for text blocks without a text field
\* and tool_use blocks without name or input.
C17_FramesWellFormed ==
    \A i \in DOMAIN resLog :
        resLog[i].op = "write" =>
            \/ resLog[i] = DoneFrame
            \/ /\ resLog[i].type \in EventTypes
               /\ resLog[i].content # <<>>

----------------------------------------------------------------------------
(* The outbound request of the simple and server modes                      *)
(* (paautin-ai-config.js: apiReq/apiRes, proxyReq/proxyRes)                 *)

\* line.startsWith("data: ")
DATA == "data: "

\* The payloads the remote API sends after "data: ", each with the value
\* JSON.parse gives: type, whether delta is there, delta.type, delta.text.
ApiEvt(type, delta, deltaType, text) ==
    [type |-> type, delta |-> delta, deltaType |-> deltaType, text |-> text]

ApiDocs ==
    { [text |-> <<"{delta:text_delta:hi", "}">>,
       value |-> ApiEvt("content_block_delta", "object", "text_delta", <<"hi">>)],
      [text |-> <<"{delta:text_delta:", EACUTE, "}">>,
       value |-> ApiEvt("content_block_delta", "object", "text_delta", <<EACUTE>>)],
      [text |-> <<"{delta:text_delta:", FFFD, FFFD, "}">>,
       value |-> ApiEvt("content_block_delta", "object", "text_delta", <<FFFD, FFFD>>)],
      [text |-> <<"{delta:input_json_delta", "}">>,
       value |-> ApiEvt("content_block_delta", "object", "input_json_delta", <<>>)],
      [text |-> <<"{message_stop", "}">>,
       value |-> ApiEvt("message_stop", Undefined, Undefined, <<>>)] }

\* the text events one upstream line gives (lines.forEach callback of the
\* 'data' handler of apiRes)
simpleLine(line) ==
    IF line = <<>> \/ Head(line) # DATA THEN <<>>
    ELSE LET data == trim(Tail(line)) IN
         IF data = <<>> \/ data = <<"[DONE]">> THEN <<>>
         ELSE IF \E d \in ApiDocs : d.text = data
         THEN LET evt == (CHOOSE d \in ApiDocs : d.text = data).value IN
              IF /\ evt.type = "content_block_delta"
                 /\ truthy(evt.delta)
                 /\ evt.deltaType = "text_delta"
              THEN <<sseWrite("text", evt.text)>>
              ELSE <<>>
         ELSE <<>>

RECURSIVE simpleLines(_)
simpleLines(lines) ==
    IF lines = <<>> THEN <<>>
    ELSE <<[line |-> Head(lines), final |-> FALSE,
            wrote |-> simpleLine(Head(lines))]>>
         \o simpleLines(Tail(lines))

\* The lines the remote end may send (without their newline)
RemoteLines ==
    { <<DATA, "{delta:text_delta:hi", "}">>,
      <<DATA, "{delta:text_delta:", C3, A9, "}">>,
      <<DATA, "{message_stop", "}">>,
      <<"event: content_block_delta">>,
      <<DATA, "[DONE]">> }

\* what no action on the outbound request changes
upstreamFrame ==
    <<variant, phase, proc, procEvents, procBuf, nLines, open, out, files,
      delivered, bytesRead, fileSize, pollpc, closed, killed, sigterm, crashed,
      pairVars, promptVars, sideVars, cfg, reqBody, strategies, configRes>>

\* the callback of https.request / mod.request: the response has arrived
onResponse(status) ==
    /\ upstream.state = "sent" /\ ~upstream.destroyed
    /\ upstream' = [upstream EXCEPT !.state = "responding", !.status = status]
    /\ UNCHANGED <<upstreamFrame, resLog, buffer, trace, connected, errBody>>

\* the remote end sends the next line of the response body; a line left
\* without its newline is the end of the body
remoteSend(line, newline) ==
    /\ upstream.state = "responding" /\ ~upstream.open
    /\ upstream.nLines < MaxLines
    /\ upstream' = [upstream EXCEPT
                      !.out = @ \o line \o (IF newline THEN <<NL>> ELSE <<>>),
                      !.nLines = @ + 1,
                      !.open = ~newline]
    /\ UNCHANGED <<upstreamFrame, resLog, buffer, trace, connected, errBody>>

\* apiRes.on("data") / proxyRes.on("data") with a chunk of k bytes
onData(k) ==
    /\ upstream.state = "responding" /\ ~upstream.destroyed
    /\ k \in 1..(Len(upstream.out) - upstream.delivered)
    /\ LET chunk == SubSeq(upstream.out, upstream.delivered + 1,
                           upstream.delivered + k)
       IN  IF upstream.status # "200"
           THEN /\ errBody' = errBody \o toString(chunk)
                /\ UNCHANGED <<resLog, buffer, trace>>
           ELSE IF upstream.kind = "server"
           THEN /\ resLog' = resLog \o <<Call("write", "raw", chunk)>>
                /\ UNCHANGED <<errBody, buffer, trace>>
           ELSE LET step == lineBufferStep(buffer, chunk)
                    tr == simpleLines(step.lines)
                IN  /\ buffer' = step.buffer
                    /\ trace' = trace \o tr
                    /\ resLog' = resLog \o wroteOf(tr)
                    /\ UNCHANGED errBody
    /\ upstream' = [upstream EXCEPT !.delivered = @ + k]
    /\ UNCHANGED <<upstreamFrame, connected>>

\* apiRes.on("end") / proxyRes.on("end")
onEnd ==
    /\ upstream.state = "responding" /\ ~upstream.destroyed
    /\ upstream.delivered = Len(upstream.out)
    /\ resLog' = resLog \o
         (IF upstream.status # "200"
          THEN <<sseWrite("error",
                          <<IF upstream.kind = "server" THEN "Server error"
                            ELSE "Anthropic API error", upstream.status>>
                          \o errBody)>> \o sseEnd
          ELSE IF upstream.kind = "server" THEN <<EndCall>>
          ELSE sseEnd)
    /\ upstream' = [upstream EXCEPT !.state = "ended"]
    /\ UNCHANGED <<upstreamFrame, buffer, trace, connected, errBody>>

\* apiReq.on("error") / proxyReq.on("error").  The runtime emits it for a
\* failure of the socket of the request: before the response, during it, and
\* between the end of the response and the close of the socket; and for a
\* request destroyed before its response.
onReqError ==
    /\ upstream.state \in {"sent", "responding", "ended"}
    /\ upstream.destroyed => upstream.state = "sent"
    /\ resLog' = resLog \o
         <<sseWrite("error",
                    <<IF upstream.kind = "server" THEN "Conexion al servidor fallo"
                      ELSE "Request failed">>)>> \o sseEnd
    /\ upstream' = [upstream EXCEPT
                      !.state = IF @ = "responding" THEN "reset" ELSE "failed"]
    /\ UNCHANGED <<upstreamFrame, buffer, trace, connected, errBody>>

\* the connection closes before the response body is complete
remoteClose ==
    /\ upstream.state = "responding" /\ ~upstream.destroyed
    /\ upstream' = [upstream EXCEPT !.state = "reset"]
    /\ UNCHANGED <<upstreamFrame, resLog, buffer, trace, connected, errBody>>

\* apiRes.on("error"): the response was destroyed before its end.  Only the
\* 200 branch of handleSimpleMode registers the listener.
onResError ==
    /\ upstream.state = "reset"
    /\ upstream.kind = "simple" /\ upstream.status = "200"
    /\ resLog' = resLog \o <<sseWrite("error", <<"Stream error">>)>> \o sseEnd
    /\ upstream' = [upstream EXCEPT !.state = "failed"]
    /\ UNCHANGED <<upstreamFrame, buffer, trace, connected, errBody>>

\* the client goes away: res.on("close") of handleServerMode destroys
\* proxyReq; handleSimpleMode registers no listener
resClose ==
    /\ variant = "embedded" /\ phase = "relay" /\ connected
    /\ upstream.kind \in {"simple", "server"}
    /\ \A i \in DOMAIN resLog : resLog[i].op # "end"
    /\ connected' = FALSE
    /\ upstream' = IF upstream.kind = "server"
                   THEN [upstream EXCEPT
                           !.destroyed = TRUE,
                           !.state = IF @ = "responding" THEN "reset" ELSE @]
                   ELSE upstream
    /\ UNCHANGED <<upstreamFrame, resLog, buffer, trace, errBody>>

UpstreamConfigs ==
    { ConfigNode(TRUE, "simple", "", ""),
      ConfigNode(TRUE, "simple", "", "key1"),
      ConfigNode(TRUE, "server", "http://host/", "key1") }

UpstreamRequest == Body(Undefined, Messages(<<"hi">>), NullFlow)

InitUpstream ==
    /\ variant = "embedded"
    /\ RelayIdle
    /\ PairIdle
    /\ PromptIdle
    /\ HttpIdle
    /\ cfg \in UpstreamConfigs
    /\ reqBody = NoBody
    /\ strategies = <<>>
    /\ upstream = NoUpstream
    /\ errBody = <<>>
    /\ configRes = NoAnswer

NextUpstream ==
    \/ chat(UpstreamRequest, "ok")
    \/ \E status \in {"200", "500"} : onResponse(status)
    \/ \E line \in RemoteLines, newline \in BOOLEAN : remoteSend(line, newline)
    \/ \E k \in 1..(Len(upstream.out) - upstream.delivered) : onData(k)
    \/ onEnd
    \/ onReqError
    \/ remoteClose
    \/ onResError
    \/ resClose

SpecUpstream == InitUpstream /\ [][NextUpstream]_vars

\* the upstream bytes written to the response as they came
RECURSIVE RawBytes(_)
RawBytes(log) ==
    IF log = <<>> THEN <<>>
    ELSE (IF Head(log).type = "raw" THEN Head(log).content ELSE <<>>)
         \o RawBytes(Tail(log))

ErrorCount ==
    Cardinality({i \in DOMAIN resLog :
                    resLog[i].op = "write" /\ resLog[i].type = "error"})

\* no write follows the end of the response
NoWriteAfterEnd ==
    \A i, j \in DOMAIN resLog :
        (i < j /\ resLog[i].op = "end") => resLog[j].op # "write"

\* a 200 response is passed on byte for byte, with nothing else once it ended
PassedThrough ==
    upstream.status = "200" =>
        /\ RawBytes(resLog) = SubSeq(upstream.out, 1, upstream.delivered)
        /\ upstream.state = "ended" =>
              /\ RawBytes(resLog) = upstream.out
              /\ \A i \in DOMAIN SseCalls :
                    IF i = Len(SseCalls) THEN SseCalls[i] = EndCall
                    ELSE SseCalls[i].type = "raw"

\* any other status gives one error event with the status and the body,
\* then [DONE], and none of the upstream bytes
StatusReported ==
    upstream.status # "200" =>
        /\ RawBytes(resLog) = <<>>
        /\ upstream.state = "ended" =>
              SseCalls = <<sseWrite("error", <<"Server error", upstream.status>>
                                             \o toString(upstream.out))>>
                         \o sseEnd

\* C16: in server mode a 200 upstream response is passed to the client byte
\* for byte and in order with nothing added; any other status gives exactly
\* one error event carrying the status and the upstream body, then [DONE],
\* and no upstream bytes; on every path at most one error event is written
\* and nothing is written after the response was ended.
C16_ServerPassThrough ==
    upstream.kind = "server" =>
        /\ PassedThrough
        /\ StatusReported
        /\ ErrorCount <= 1
        /\ NoWriteAfterEnd

\* the text events of all the lines of a response body, in order
RECURSIVE textEvents(_)
textEvents(lines) ==
    IF lines = <<>> THEN <<>>
    ELSE simpleLine(Head(lines)) \o textEvents(Tail(lines))

\* no API key: one error event and [DONE], no outbound request
NoKeyRefused ==
    apiKeyOf(cfg) = "" =>
        /\ SseCalls = <<sseWrite("error", <<"API Key no configurada">>)>> \o sseEnd
        /\ upstream.state = "none"

\* a status other than 200: one error event with status and body, [DONE]
ApiErrorReported ==
    (upstream.status \notin {"", "200"} /\ upstream.state = "ended") =>
        SseCalls = <<sseWrite("error", <<"Anthropic API error", upstream.status>>
                                       \o toString(upstream.out))>>
                   \o sseEnd

\* status 200: when the upstream has ended, the response holds one text
\* event for each text_delta line of the body, in order, and [DONE]
DeltasTranslated ==
    (upstream.status = "200" /\ upstream.state = "ended") =>
        SseCalls = textEvents(split(toString(upstream.out))) \o sseEnd

\* C20: in simple mode, without an API key one error event and [DONE] are
\* written and no outbound request is made; a non-200 answer gives exactly
\* one error event with status and body, then [DONE]; a 200 answer gives one
\* text event for each data: line holding a text_delta, in upstream order,
\* nothing for any other line, and [DONE] once when the upstream ends.
C20_SimpleMode ==
    (ChatHandled /\ strategies = <<"simple">>) =>
        /\ NoKeyRefused
        /\ ApiErrorReported
        /\ DeltasTranslated
        /\ DoneCount <= 1

----------------------------------------------------------------------------
(* The request listener of the companion server                             *)
(* (companion-server.js:219-244, unnamed/part_000:287-312)                  *)

\* what the listener did after setCORS: the calls on the response, and
\* whether it called handleChat
Routed(wrote, dispatched) == [wrote |-> wrote, dispatched |-> dispatched]

NotFound == <<Call("writeHead", "404", <<>>), Call("end", "text", <<"Not found">>)>>

Health ==
    <<Call("writeHead", "200", <<>>),
      Call("end", "json", <<"status", "ok", "project", "/project">>)>>

Preflight == <<Call("writeHead", "204", <<>>), EndCall>>

\* the listener without its preflight branch
route_noPreflight(method, url) ==
    IF method = "GET" /\ url = Target("/health", "")
    THEN Routed(Health, FALSE)
    ELSE IF method = "POST" /\ url = Target("/chat", "")
    THEN Routed(<<>>, TRUE)
    ELSE Routed(NotFound, FALSE)

\* the branches of the listener: req.url is compared as a whole, so a target
\* with a query string equals neither "/health" nor "/chat"
route(method, url) ==
    IF method = "OPTIONS"
    THEN Routed(Preflight, FALSE)
    ELSE IF method = "GET" /\ url = Target("/health", "")
    THEN Routed(Health, FALSE)
    ELSE IF method = "POST" /\ url = Target("/chat", "")
    THEN Routed(<<>>, TRUE)
    ELSE Routed(NotFound, FALSE)

\* http.createServer(function (req, res) {...})
requestListener(method, url) ==
    /\ variant \in {"pipe", "poll"} /\ phase = "request"
    /\ request' = Req(method, url)
    /\ cors' = TRUE
    /\ LET r == route(method, url) IN
       /\ resLog' = r.wrote
       /\ phase' = IF r.dispatched THEN "body" ELSE "answered"
    /\ UNCHANGED <<variant, proc, procEvents, procBuf, nLines, open, out, files,
                   delivered, buffer, bytesRead, fileSize, pollpc, closed,
                   connected, killed, sigterm, trace, crashed>>
    /\ UNCHANGED <<pairVars, embeddedVars, promptVars, timerVars, signalVars>>

Methods == {"GET", "POST", "OPTIONS", "HEAD", "PUT", "DELETE", "PATCH"}

Targets ==
    { Target("/health", ""), Target("/chat", ""), Target("/", ""),
      Target("/other", ""), Target("/health/", ""), Target("/chat/", ""),
      Target("/health", "x=1"), Target("/chat", "x=1") }

InitHttp ==
    /\ variant \in {"pipe", "poll"}
    /\ phase = "request"
    /\ ResponseIdle
    /\ PairIdle
    /\ EmbeddedIdle
    /\ PromptIdle
    /\ request = NoRequest
    /\ cors = FALSE

NextHttp ==
    \/ \E method \in Methods, url \in Targets : requestListener(method, url)
    \/ \E body \in RelayBodies, spawned \in {"ok", "throw", "error"},
          fatal \in BOOLEAN :
          handleChat_pipe(body, spawned, fatal)
    \/ \E body \in RelayBodies, spawned \in {"ok", "throw", "error"},
          fatal \in BOOLEAN :
          handleChat_poll(body, spawned, fatal)

SpecHttp == InitHttp /\ [][NextHttp]_vars

\* the listener answered by itself, and handleChat was never entered
AnsweredWith(calls) ==
    /\ phase = "answered"
    /\ resLog = calls
    /\ chatBody = NoChatBody
    /\ proc = "none"

\* the request went to handleChat, and the listener wrote nothing itself
ToChatHandler ==
    /\ phase # "answered"
    /\ resLog \notin {Preflight, Health, NotFound}

\* C21 as stated, the routes taken by method and path: every response has
\* the CORS headers; OPTIONS gets 204 with an empty body and never reaches
\* the chat handler; GET with path /health gets 200 {status, project}; POST
\* with path /chat goes to the chat handler; every other pair gets 404.
C21_RoutedByPath ==
    phase # "request" =>
        /\ cors
        /\ IF request.method = "OPTIONS" THEN AnsweredWith(Preflight)
           ELSE IF request.method = "GET" /\ request.url.path = "/health"
           THEN AnsweredWith(Health)
           ELSE IF request.method = "POST" /\ request.url.path = "/chat"
           THEN ToChatHandler
           ELSE AnsweredWith(NotFound)

\* C21: every response has the CORS headers; OPTIONS to any target gets 204
\* with an empty body and never reaches the chat handler; GET with the
\* target exactly /health gets 200 {status, project}; POST with the target
\* exactly /chat goes to the chat handler; every other pair of method and
\* target, also /health or /chat followed by a query string, gets 404; and
\* exactly one of these happens.
C21_RoutedByTarget ==
    phase # "request" =>
        /\ cors
        /\ IF request.method = "OPTIONS" THEN AnsweredWith(Preflight)
           ELSE IF request.method = "GET" /\ request.url = Target("/health", "")
           THEN AnsweredWith(Health)
           ELSE IF request.method = "POST" /\ request.url = Target("/chat", "")
           THEN ToChatHandler
           ELSE AnsweredWith(NotFound)

\* a preflight to the chat target was answered 204 without the chat handler
C21_Witness ==
    /\ request = Req("OPTIONS", Target("/chat", ""))
    /\ AnsweredWith(Preflight)
    /\ cors

----------------------------------------------------------------------------
(* Client disconnect and the outbound request *)

\* the outbound request is still open: sent or answering, and not destroyed
OutboundOpen ==
    /\ upstream.kind \in {"simple", "server"}
    /\ upstream.state \in {"sent", "responding"}
    /\ ~upstream.destroyed

\* C22: in the embedded simple and server modes a client disconnect aborts
\* the outbound request, so that no request keeps an open outbound
\* connection after the disconnect, and no error event is written to the
\* response once the client is gone.
C22_DisconnectCancels ==
    /\ [](~connected => ~OutboundOpen)
    /\ [][~connected => ErrorCount' = ErrorCount]_vars

----------------------------------------------------------------------------
(* The temp-file relay: what a poll has read when it completes the stream *)

\* the subprocess of the request is alive (process.kill(procPid, 0) succeeds)
Alive == proc \in {"spawned", "running"}

----------------------------------------------------------------------------
(* Termination of the relays.  The timers and event handlers of the server  *)
(* run when they are due, the subprocess writes what it has produced and    *)
(* eventually exits; the client may stay or go.                             *)

Fairness ==
    /\ WF_vars(ProcOpen)
    /\ WF_vars(\E k \in WriteSizes : ProcWrite(k))
    /\ WF_vars(ProcExit)
    /\ WF_vars(\E k \in 1..(Len(out) - delivered) : StdoutData(k))
    /\ WF_vars(ProcError)
    /\ WF_vars(ProcClose)
    /\ WF_vars(PollRead)
    /\ WF_vars(PollAlive)

SpecLive == Init /\ [][Next]_vars /\ Fairness

\* the stream was completed: [DONE] was written and the response ended
Completed == DoneCount > 0 /\ EndCount > 0

\* C24: every opened SSE stream of a subprocess relay is eventually
\* completed with [DONE] and the end of the response, unless the client
\* disconnects: also when the subprocess never started, when the output
\* file of the temp-file relay is never created, and when the subprocess
\* exits without writing anything.
C24_StreamTerminates ==
    (SseOpened /\ variant \in {"pipe", "poll"}) ~> (Completed \/ ~connected)

----------------------------------------------------------------------------
(* The temp files of the temp-file relay *)

\* handleChat of the temp-file relay has written the prompt file
TempFilesCreated == variant = "poll" /\ phase \in {"relay", "returned"}

\* the request is over: the stream was completed, or the client went away
\* and the subprocess is gone, or the subprocess could not be started
RequestOver ==
    \/ pollpc = "done"
    \/ closed /\ ~Alive
    \/ proc = "threw"
    \/ proc = "failed" /\ "error" \in procEvents

\* the request is connected and under way: the subprocess may still read the
\* prompt, the relay may still read the output
UnderWay ==
    /\ phase = "relay" /\ connected /\ ~closed /\ ~crashed
    /\ pollpc # "done"
    /\ proc \in {"spawned", "running", "exited"}

\* C25: in the temp-file relay, once a request is over (normal completion,
\* also when the close of the request runs cleanup a second time; client
\* disconnect; spawn failure) neither the prompt file nor the output file is
\* left; and no file is deleted by a step that leaves the request connected
\* and under way.
C25_TempFileLifecycle ==
    /\ []((TempFilesCreated /\ RequestOver) => files = {})
    /\ [][(TempFilesCreated /\ UnderWay /\ UnderWay') => files \subseteq files']_vars

----------------------------------------------------------------------------
(* The read offset of the temp-file relay *)

\* the lines handed to the callback as they stood in the line buffer, each
\* followed by its newline
RECURSIVE Joined(_)
Joined(lines) ==
    IF lines = <<>> THEN <<>> ELSE Head(lines) \o <<NL>> \o Joined(Tail(lines))

\* all that was appended to the line buffer since the request started
Appended == Joined(bufferedLines(trace)) \o buffer

\* the number of bytes the text was decoded from (the two bytes of an
\* e-acute give one character when read together)
RECURSIVE byteLength(_)
byteLength(text) ==
    IF text = <<>> THEN 0
    ELSE (IF Head(text) = EACUTE THEN 2 ELSE 1) + byteLength(Tail(text))

\* C26: in the temp-file relay bytesRead never decreases and never exceeds
\* the size of the output file sampled by the last poll; it is the number of
\* bytes appended to the line buffer since the request started; and what
\* was appended is the output file up to bytesRead, every byte once, in
\* order (compared byte for byte for output of one-byte characters).
C26_ReadOffset ==
    /\ [](variant = "poll" =>
            /\ bytesRead <= fileSize
            /\ bytesRead <= Len(out)
            /\ byteLength(Appended) = bytesRead
            /\ (\A i \in DOMAIN out : out[i] \notin {C3, A9}) =>
                  Appended = SubSeq(out, 1, bytesRead))
    /\ [][variant = "poll" => bytesRead' >= bytesRead]_vars

\* a poll has read part of the output, and the file has grown since
C26_Witness ==
    /\ variant = "poll"
    /\ bytesRead > 0
    /\ bytesRead < Len(out)
    /\ trace # <<>>

----------------------------------------------------------------------------
\* The timers of pollFile

\* a call of pollFile is between its statSync and its liveness check
InPoll == pollpc = "statted"

\* the values a poll reads into or writes
PollEffects == <<fileSize, bytesRead, buffer, trace, resLog>>

\* C27: in the temp-file relay at most one pollFile timer is set at any
\* time and none while a call of pollFile runs; a call ends with exactly
\* one new timer or, having written [DONE], with none, and once no timer
\* is set and no call runs none is set again; after the request was marked
\* closed, and after [DONE] was written, no call of pollFile reads the
\* file, writes to the response or sets a timer: the timer still set when
\* the request is closed runs into the closed guard and sets no other.
C27_PollScheduling ==
    /\ [](variant = "poll" =>
            /\ pending <= 1
            /\ (InPoll => pending = 0)
            /\ (DoneCount > 0 => pending = 0 /\ pollpc = "done")
            /\ (closed => ~InPoll))
    /\ [][(variant = "poll" /\ InPoll /\ ~InPoll') =>
            \/ pending' = 1 /\ DoneCount' = 0
            \/ pending' = 0 /\ DoneCount' = 1]_vars
    /\ [][(variant = "poll" /\ phase = "relay" /\ pending = 0 /\ ~InPoll) =>
            pending' = 0 /\ ~InPoll']_vars
    /\ [][(variant = "poll" /\ (closed \/ DoneCount > 0)) =>
            /\ PollEffects' = PollEffects
            /\ pending' <= pending
            /\ (pollpc' # pollpc => pollpc' = "none" /\ pending' = 0)]_vars

\* the request was closed after a poll had read output, and the timer that
\* was set at that moment has run into the closed guard
C27_Witness ==
    /\ variant = "poll" /\ closed /\ bytesRead > 0
    /\ pollpc = "none" /\ pending = 0

----------------------------------------------------------------------------
\* The termination signal

\* C28: a SIGTERM goes only to the subprocess of the request while it is
\* alive: none is sent through the recorded process id once the subprocess
\* has ended, in particular not by the close of a request whose stream was
\* completed, and at most one SIGTERM is sent per request.
C28_SignalOnlyWhileRunning ==
    /\ [](stray = 0)
    /\ [](sigterm + stray <= 1)
    /\ [][sigterm' > sigterm => Alive]_vars

----------------------------------------------------------------------------
\* Failures are terminal

\* the calls on the response after its first error event
AfterError ==
    LET errors == {i \in DOMAIN resLog :
                     resLog[i].op = "write" /\ resLog[i].type = "error"}
        first == CHOOSE i \in errors : \A j \in errors : i <= j
    IN  IF errors = {} THEN <<>>
        ELSE SubSeq(resLog, first + 1, Len(resLog))

\* the frames written after the first error event
WrittenAfterError == SelectSeq(AfterError, LAMBDA c : c.op = "write")

\* a subprocess is started only by a request that has started none
SpawnedOnce ==
    [][(proc' # proc /\ proc' \in {"spawned", "failed", "threw"}) =>
          proc = "none"]_vars

\* C29: a failure ends its request and nothing is tried again: a request
\* starts at most one subprocess, and after an error event the only frame
\* written is one [DONE]: no second [DONE] and no text, tool_use, result,
\* cost or further error event.
C29_FailureIsTerminal ==
    /\ SpawnedOnce
    /\ [](WrittenAfterError \in {<<>>, <<DoneFrame>>})

====
